---- MODULE Spec2Model ----
(***************************************************************************)
(* A model of the analytics core of the mental-health journal backend:     *)
(*   backend/models/mh_index.py         MentalHealthIndex                  *)
(*   backend/models/fourier_analysis.py FourierAnalyzer                    *)
(*   backend/models/journal_cluster.py  JournalClusterer                   *)
(*                                                                         *)
(* Numbers are exact rationals [num, den] (den > 0, lowest terms), so the  *)
(* arithmetic of the analyzers is the arithmetic of the reals; IEEE        *)
(* rounding is not modelled.  An optional value (Python None) is the empty *)
(* sequence, a present value v is <<v>>.                                   *)
(***************************************************************************)
EXTENDS Integers, Sequences, FiniteSets, TLC

VARIABLES
    entries,          \* the entry list handed to calculate_index
    weights,          \* MentalHealthIndex.weights of the shared calculator
    index_result,     \* outcome of the last calculate_index call
    computed,         \* components the last calculate_index call computed
    interpretation,   \* outcome of the last get_interpretation call
    recommendations,  \* outcome of the last get_recommendations call
    mood_data,        \* the mood series handed to the FourierAnalyzer
    spectrum,         \* amplitudes |fft| of the preprocessed series, per valid bin
    cycle_report,     \* outcome of the last analyze_cycles call
    cycle_steps,      \* stages the last analyze_cycles call went through
    forecast,         \* outcome of the last predict_mood_trend call
    cycle_insights,   \* outcome of the last generate_cycle_insights call
    journal_texts,    \* the texts handed to the last cluster_entries call
    seeded,           \* per input: what seeded KMeans and silhouette give
    clusterer,        \* the JournalClusterer's fields
    clusterer_before, \* the clusterer's fields before the last call
    cluster_result,   \* outcome of the last cluster_entries call
    mood_ratings,     \* the mood ratings handed to analyze_cluster_emotions
    sentiment_scores, \* the sentiment scores handed to it
    emotion_result,   \* outcome of the last analyze_cluster_emotions call
    journal_entries,  \* the user's rows of the table journal_entries
    mh_scores,        \* the user's rows of the table mh_scores
    now,              \* datetime.now() of the requests, in ticks
    score_response    \* outcome of the last request to the score router

scoreVars == <<journal_entries, mh_scores, now, score_response>>
indexVars == <<entries, weights, index_result, computed, interpretation,
               recommendations, scoreVars>>
cycleVars == <<mood_data, spectrum, cycle_report, cycle_steps, forecast,
               cycle_insights>>
emotionVars == <<mood_ratings, sentiment_scores, emotion_result>>
clusterVars ==
    <<journal_texts, seeded, clusterer, clusterer_before, cluster_result,
      emotionVars>>
vars == <<indexVars, cycleVars, clusterVars>>

-----------------------------------------------------------------------------
(* Exact rational arithmetic.                                              *)

Abs(x) == IF x < 0 THEN -x ELSE x

RECURSIVE GCD(_, _)
GCD(a, b) == IF b = 0 THEN a ELSE GCD(b, a % b)

Rat(n, d) ==
    LET s == IF d < 0 THEN -1 ELSE 1
        g == GCD(Abs(n), Abs(d))
    IN  [num |-> (s * n) \div g, den |-> (s * d) \div g]

RInt(i) == [num |-> i, den |-> 1]

RAdd(a, b) == Rat(a.num * b.den + b.num * a.den, a.den * b.den)
RSub(a, b) == Rat(a.num * b.den - b.num * a.den, a.den * b.den)
RMul(a, b) == Rat(a.num * b.num, a.den * b.den)
RDivInt(a, n) == Rat(a.num, a.den * n)
RLt(a, b) == a.num * b.den < b.num * a.den
RLe(a, b) == a.num * b.den <= b.num * a.den
RGt(a, b) == RLt(b, a)
RGe(a, b) == RLe(b, a)

\* Python's max(a, b) and min(a, b): the first argument unless the second
\* is strictly larger (smaller).
PyMax(a, b) == IF RGt(b, a) THEN b ELSE a
PyMin(a, b) == IF RLt(b, a) THEN b ELSE a

RECURSIVE RSum(_)
RSum(s) == IF s = <<>> THEN RInt(0) ELSE RAdd(s[1], RSum(Tail(s)))

\* numpy.mean of a non-empty list of numbers
Mean(s) == RDivInt(RSum(s), Len(s))

\* numpy.var (population variance, ddof = 0)
Var(s) ==
    LET m == Mean(s)
    IN  Mean([i \in 1..Len(s) |-> RMul(RSub(s[i], m), RSub(s[i], m))])

-----------------------------------------------------------------------------
(* Optional values and entries.                                            *)

None == <<>>
Some(v) == <<v>>
Val(o) == o[1]

\* Python truthiness of entry.get('mood_rating'): None and 0 are falsy.
Truthy(o) == o # None /\ Val(o).num # 0

\* Bounds of the entry lists explored.
MaxEntries == 4
TicksPerDay == 2
MaxDays == 3

\* created_at is a timestamp counted in ticks of 1/TicksPerDay day.  All
\* timestamps come from the store in one format, so the order of the ISO
\* strings (the sort key of _calculate_trend) is the order of the ticks.
Times == {0, 1, TicksPerDay * MaxDays}

Entry(M, S, T) == [mood_rating : M, sentiment_score : S, created_at : T]

\* moods within the documented range [1,10], on the first and the last day
DocumentedEntries ==
    Entry({Some(RInt(1)), Some(RInt(2)), Some(RInt(10))},
          {Some(Rat(4, 5))},
          {0, TicksPerDay * MaxDays})

\* one mood at varying times, two of them on the same day
TimedEntries == Entry({Some(RInt(5))}, {Some(Rat(4, 5))}, Times)

\* entries with absent mood or sentiment, sentiments within [0,1]
SparseEntries ==
    Entry({None, Some(RInt(3))},
          {None, Some(RInt(0)), Some(Rat(1, 2))},
          {0})

\* values outside the documented ranges
AnyScaleEntries ==
    Entry({Some(RInt(-40)), Some(RInt(0)), Some(RInt(40))},
          {Some(RInt(-3)), Some(RInt(3))},
          {0})

Lists(D, n) == UNION {[1..k -> D] : k \in 0..n}

EntryLists ==
    Lists(DocumentedEntries, MaxEntries) \cup Lists(TimedEntries, MaxEntries)
        \cup Lists(SparseEntries, MaxEntries)
        \cup Lists(AnyScaleEntries, MaxEntries)

-----------------------------------------------------------------------------
(* MentalHealthIndex (backend/models/mh_index.py).                         *)

ComponentNames ==
    {"mood_average", "mood_stability", "sentiment_average", "consistency",
     "trend"}

\* MentalHealthIndex.__init__: the weights, in hundredths
InitialWeights ==
    [mood_average      |-> Rat(30, 100),
     mood_stability    |-> Rat(20, 100),
     sentiment_average |-> Rat(20, 100),
     consistency       |-> Rat(15, 100),
     trend             |-> Rat(15, 100)]

Neutral == Rat(5, 1)

\* [f(x) for x in s if p(x)] helpers
MoodsPresent(es) ==
    LET kept == SelectSeq(es, LAMBDA e : Truthy(e.mood_rating))
    IN  [i \in 1..Len(kept) |-> Val(kept[i].mood_rating)]

\* mutant: sentiment filtered by truthiness, as the mood filter is
SentimentsPresent_Truthy(es) ==
    LET kept == SelectSeq(es, LAMBDA e : Truthy(e.sentiment_score))
    IN  [i \in 1..Len(kept) |-> Val(kept[i].sentiment_score)]

SentimentsPresent(es) ==
    LET kept == SelectSeq(es, LAMBDA e : e.sentiment_score # None)
    IN  [i \in 1..Len(kept) |-> Val(kept[i].sentiment_score)]

calculate_mood_average(es) ==
    LET moods == MoodsPresent(es)
    IN  IF moods # <<>> THEN Mean(moods) ELSE Neutral

\* mutant: the floor max(1, .) left out
calculate_mood_stability_NoFloor(es) ==
    LET moods == MoodsPresent(es)
    IN  IF Len(moods) < 2 THEN Neutral
        ELSE RSub(RInt(10), Var(moods))

calculate_mood_stability(es) ==
    LET moods == MoodsPresent(es)
    IN  IF Len(moods) < 2 THEN Neutral
        ELSE PyMax(RInt(1), RSub(RInt(10), Var(moods)))

calculate_sentiment_average(es) ==
    LET sentiments == SentimentsPresent(es)
    IN  IF sentiments = <<>> THEN Neutral
        ELSE RMul(Mean(sentiments), RInt(10))

SetMax(S) == CHOOSE x \in S : \A y \in S : y <= x
SetMin(S) == CHOOSE x \in S : \A y \in S : x <= y

\* (dates[-1] - dates[0]).days + 1
DateRange(es) ==
    LET ts == {es[i].created_at : i \in 1..Len(es)}
    IN  ((SetMax(ts) - SetMin(ts)) \div TicksPerDay) + 1

calculate_consistency(es) ==
    IF es = <<>> THEN RInt(0)
    ELSE IF Len(es) < 2 THEN Neutral
    ELSE RMul(PyMin(RInt(1), Rat(Len(es), DateRange(es))), RInt(10))

\* sorted(entries, key=created_at): a stable sort
InsertByCreatedAt(sorted, e) ==
    LET k == Cardinality({i \in 1..Len(sorted) :
                              sorted[i].created_at <= e.created_at})
    IN  SubSeq(sorted, 1, k) \o <<e>> \o SubSeq(sorted, k + 1, Len(sorted))

RECURSIVE SortedByCreatedAt(_)
SortedByCreatedAt(es) ==
    IF es = <<>> THEN <<>>
    ELSE InsertByCreatedAt(SortedByCreatedAt(SubSeq(es, 1, Len(es) - 1)),
                           es[Len(es)])

MidPoint(es) == Len(es) \div 2
OlderHalf(es) == SubSeq(SortedByCreatedAt(es), 1, MidPoint(es))
RecentHalf(es) == SubSeq(SortedByCreatedAt(es), MidPoint(es) + 1, Len(es))

\* numpy.mean over a list that holds None raises TypeError
TrendRaises(es) ==
    /\ Len(es) >= 4
    /\ \E i \in 1..Len(es) : es[i].mood_rating = None

\* mutant: the halves taken from the entries in the order they were passed
calculate_trend_Unsorted(es) ==
    IF Len(es) < 4 THEN Neutral
    ELSE LET recent == SubSeq(es, MidPoint(es) + 1, Len(es))
             older == SubSeq(es, 1, MidPoint(es))
             recent_moods == [i \in 1..Len(recent) |->
                                  Val(recent[i].mood_rating)]
             older_moods  == [i \in 1..Len(older) |->
                                  Val(older[i].mood_rating)]
             trend_diff   == RSub(Mean(recent_moods), Mean(older_moods))
             trend_score  == RAdd(RInt(5), RMul(trend_diff, RInt(2)))
         IN  PyMax(RInt(0), PyMin(RInt(10), trend_score))

\* mutant: the halves compared the wrong way round
calculate_trend_Reversed(es) ==
    IF Len(es) < 4 THEN Neutral
    ELSE LET recent_moods == [i \in 1..Len(RecentHalf(es)) |->
                                  Val(RecentHalf(es)[i].mood_rating)]
             older_moods  == [i \in 1..Len(OlderHalf(es)) |->
                                  Val(OlderHalf(es)[i].mood_rating)]
             trend_diff   == RSub(Mean(older_moods), Mean(recent_moods))
             trend_score  == RAdd(RInt(5), RMul(trend_diff, RInt(2)))
         IN  PyMax(RInt(0), PyMin(RInt(10), trend_score))

calculate_trend(es) ==
    IF Len(es) < 4 THEN Neutral
    ELSE LET recent_moods == [i \in 1..Len(RecentHalf(es)) |->
                                  Val(RecentHalf(es)[i].mood_rating)]
             older_moods  == [i \in 1..Len(OlderHalf(es)) |->
                                  Val(OlderHalf(es)[i].mood_rating)]
             trend_diff   == RSub(Mean(recent_moods), Mean(older_moods))
             trend_score  == RAdd(RInt(5), RMul(trend_diff, RInt(2)))
         IN  PyMax(RInt(0), PyMin(RInt(10), trend_score))

WeightedSum(w, c) ==
    RAdd(RAdd(RAdd(RAdd(RMul(c.mood_average, w.mood_average),
                        RMul(c.mood_stability, w.mood_stability)),
                   RMul(c.sentiment_average, w.sentiment_average)),
              RMul(c.consistency, w.consistency)),
         RMul(c.trend, w.trend))

\* mutant: the upper clamp left out
Clamp_LowerOnly(lo, hi, x) == PyMax(lo, x)

Clamp(lo, hi, x) == PyMax(lo, PyMin(hi, x))

EmptyDict == [k \in {} |-> RInt(0)]

Components(es) ==
    [mood_average      |-> calculate_mood_average(es),
     mood_stability    |-> calculate_mood_stability(es),
     sentiment_average |-> calculate_sentiment_average(es),
     consistency       |-> calculate_consistency(es),
     trend             |-> calculate_trend(es)]

\* mutant: the guard for an empty entry list left out
calculate_index_NoEmptyGuard(w, es) ==
    IF TrendRaises(es) THEN
        [status |-> "raised", index |-> RInt(0), components |-> EmptyDict,
         weights |-> EmptyDict]
    ELSE
        [status |-> "returned",
         index |-> Clamp(RInt(0), RInt(10), WeightedSum(w, Components(es))),
         components |-> Components(es),
         weights |-> w]

\* calculate_index: status "returned" with (index, components, weights
\* reference), or "raised" when a helper raises.
calculate_index(w, es) ==
    IF es = <<>> THEN
        [status |-> "returned", index |-> RInt(0), components |-> EmptyDict,
         weights |-> EmptyDict]
    ELSE IF TrendRaises(es) THEN
        [status |-> "raised", index |-> RInt(0), components |-> EmptyDict,
         weights |-> EmptyDict]
    ELSE
        [status |-> "returned",
         index |-> Clamp(RInt(0), RInt(10), WeightedSum(w, Components(es))),
         components |-> Components(es),
         weights |-> w]

\* the helpers calculate_index has called when it returns or raises
ComputedBy(es) == IF es = <<>> THEN {} ELSE ComponentNames

\* mutant: the excellent band's boundary made exclusive
get_interpretation_Strict(index) ==
    IF RGt(index, RInt(8)) THEN "Excellent mental health"
    ELSE IF RGe(index, Rat(13, 2)) THEN "Good mental health"
    ELSE IF RGe(index, RInt(5)) THEN "Moderate mental health"
    ELSE IF RGe(index, Rat(7, 2)) THEN "Concerning mental health"
    ELSE "Poor mental health - consider seeking support"

get_interpretation(index) ==
    IF RGe(index, RInt(8)) THEN "Excellent mental health"
    ELSE IF RGe(index, Rat(13, 2)) THEN "Good mental health"
    ELSE IF RGe(index, RInt(5)) THEN "Moderate mental health"
    ELSE IF RGe(index, Rat(7, 2)) THEN "Concerning mental health"
    ELSE "Poor mental health - consider seeking support"

RecMood == "Focus on activities that boost your mood"
RecStability == "Work on developing emotional regulation techniques"
RecSentiment == "Practice positive self-talk and gratitude"
RecConsistency == "Try to journal more regularly for better insights"
RecDeclining == "Your mood trend is declining - consider seeking support"
RecUpward == "Great job! Your mood is trending upward"

get_recommendations(c) ==
    (IF RLt(c.mood_average, RInt(5)) THEN <<RecMood>> ELSE <<>>)
    \o (IF RLt(c.mood_stability, RInt(5)) THEN <<RecStability>> ELSE <<>>)
    \o (IF RLt(c.sentiment_average, RInt(5)) THEN <<RecSentiment>> ELSE <<>>)
    \o (IF RLt(c.consistency, RInt(6)) THEN <<RecConsistency>> ELSE <<>>)
    \o (IF RLt(c.trend, RInt(4)) THEN <<RecDeclining>>
        ELSE IF RGt(c.trend, RInt(7)) THEN <<RecUpward>> ELSE <<>>)

-----------------------------------------------------------------------------
(* FourierAnalyzer (backend/models/fourier_analysis.py).                   *)
(*                                                                         *)
(* A series element is NaN or a present number.  The amplitudes of the     *)
(* discrete Fourier transform are irrational in general and are not        *)
(* computed: the spectrum of a series is some assignment of amplitude      *)
(* levels to its valid frequency bins, fixed when the series is chosen,    *)
(* and everything downstream of numpy's fft is computed from it as the     *)
(* code computes it.                                                       *)

NaN == <<>>

\* FourierAnalyzer.__init__ defaults
min_period == 2
max_period == 60

\* Bounds of the series explored.
MaxSeries == 7
MaxAmp == 1
MaxHorizon == 2

AmpLevels == 0..MaxAmp

HasNaN(d) == \E i \in 1..Len(d) : d[i] = NaN
ValidCount(d) == Cardinality({i \in 1..Len(d) : d[i] # NaN})

\* _preprocess_data: the length and finiteness of what it returns.  More
\* than half missing: the present values alone, neither detrended nor
\* windowed.  Otherwise pandas interpolates, which leaves a leading NaN in
\* place; numpy.polyfit on such data raises LinAlgError or yields NaN,
\* depending on the LAPACK build.
PreprocessOutcomes(d) ==
    IF ~HasNaN(d) THEN {[status |-> "ok", n |-> Len(d), finite |-> TRUE]}
    ELSE IF 2 * ValidCount(d) < Len(d)
         THEN {[status |-> "ok", n |-> ValidCount(d), finite |-> TRUE]}
    ELSE IF d[1] = NaN
         THEN {[status |-> "raised", n |-> Len(d), finite |-> FALSE],
               [status |-> "ok", n |-> Len(d), finite |-> FALSE]}
    ELSE {[status |-> "ok", n |-> Len(d), finite |-> TRUE]}

\* fftfreq(n, d=1): the positive frequencies are k/n for k in 1..(n-1)//2;
\* valid_mask keeps those whose period n/k lies in [min_period, max_period]
ValidBins(n) ==
    {k \in 1..((n - 1) \div 2) :
        /\ RGe(Rat(n, k), RInt(min_period))
        /\ RLe(Rat(n, k), RInt(max_period))}

RECURSIVE SortedSeq(_)
SortedSeq(S) ==
    IF S = {} THEN <<>>
    ELSE LET m == CHOOSE x \in S : \A y \in S : x <= y
         IN  <<m>> \o SortedSeq(S \ {m})

\* the spectra a series can have: one amplitude level per valid bin
Spectra(d) ==
    IF Len(d) < 4 THEN {<<>>}
    ELSE LET finite == {o \in PreprocessOutcomes(d) : o.finite}
         IN  IF finite = {} THEN {<<>>}
             ELSE LET n == (CHOOSE o \in finite : TRUE).n
                  IN  [1..Cardinality(ValidBins(n)) -> AmpLevels]

SeqMax(x) == CHOOSE m \in {x[i] : i \in 1..Len(x)} :
                 \A i \in 1..Len(x) : x[i] <= m

\* scipy _local_maxima_1d: strict rises to a flat top that falls strictly,
\* reported at the top's midpoint; the first and last sample are no peaks
LocalMaxima(x) ==
    {m \in 1..Len(x) :
        \E l \in 2..(Len(x) - 1) : \E r \in l..(Len(x) - 1) :
            /\ m = (l + r) \div 2
            /\ x[l - 1] < x[l]
            /\ \A j \in l..r : x[j] = x[l]
            /\ x[r + 1] < x[r]}

\* height = np.max(valid_amplitudes) * 0.1
AboveHeight(P, x) == {p \in P : 10 * x[p] >= SeqMax(x)}

\* distance = max(1, len(valid_amplitudes) // 20)
PeakDistance(x) == IF Len(x) \div 20 > 1 THEN Len(x) \div 20 ELSE 1

\* scipy _select_by_peak_distance: highest peak first, peaks closer than
\* the distance to a kept peak are dropped
RECURSIVE SelectByDistance(_, _, _, _)
SelectByDistance(todo, keep, x, dist) ==
    IF todo = {} THEN keep
    ELSE LET best == CHOOSE p \in todo : \A q \in todo :
                         x[q] < x[p] \/ (x[q] = x[p] /\ q <= p)
         IN  IF best \notin keep
             THEN SelectByDistance(todo \ {best}, keep, x, dist)
             ELSE SelectByDistance(
                      todo \ {best},
                      {q \in keep : q = best \/ Abs(q - best) >= dist},
                      x, dist)

find_peaks(x) ==
    LET P == AboveHeight(LocalMaxima(x), x)
    IN  SortedSeq(SelectByDistance(P, P, x, PeakDistance(x)))

\* mutant: the frequency reported as the period
PeakInfo_Frequency(n, x, i) ==
    LET k == SortedSeq(ValidBins(n))[i]
    IN  [period |-> Rat(k, n),
         amplitude |-> RInt(x[i]),
         frequency |-> Rat(k, n),
         relative_strength |-> Rat(x[i], SeqMax(x))]

\* the dictionary appended to peak_info for the peak at valid index i
PeakInfo(n, x, i) ==
    LET k == SortedSeq(ValidBins(n))[i]
    IN  [period |-> Rat(n, k),
         amplitude |-> RInt(x[i]),
         frequency |-> Rat(k, n),
         relative_strength |-> Rat(x[i], SeqMax(x))]

\* mutant: the sort without reverse=True
InsertByAmplitude_Ascending(sorted, p) ==
    LET k == Cardinality({i \in 1..Len(sorted) :
                              RLe(sorted[i].amplitude, p.amplitude)})
    IN  SubSeq(sorted, 1, k) \o <<p>> \o SubSeq(sorted, k + 1, Len(sorted))

\* peak_info.sort(key=amplitude, reverse=True): stable
InsertByAmplitude(sorted, p) ==
    LET k == Cardinality({i \in 1..Len(sorted) :
                              RGe(sorted[i].amplitude, p.amplitude)})
    IN  SubSeq(sorted, 1, k) \o <<p>> \o SubSeq(sorted, k + 1, Len(sorted))

RECURSIVE SortedByAmplitude(_)
SortedByAmplitude(ps) ==
    IF ps = <<>> THEN <<>>
    ELSE InsertByAmplitude(SortedByAmplitude(SubSeq(ps, 1, Len(ps) - 1)),
                           ps[Len(ps)])

\* mutant: a relative strength of exactly 0.3 counted as weak
assess_analysis_quality_WeakAtThreshold(original_data, peaks) ==
    IF Len(original_data) < 14 THEN "poor_short_series"
    ELSE IF Len(original_data) < 30 THEN "fair_medium_series"
    ELSE IF peaks = <<>> THEN "poor_no_peaks"
    ELSE IF RLe(peaks[1].relative_strength, Rat(3, 10))
         THEN "fair_weak_signal"
    ELSE IF RGt(peaks[1].relative_strength, Rat(7, 10))
         THEN "excellent_strong_signal"
    ELSE "good_moderate_signal"

assess_analysis_quality(original_data, peaks) ==
    IF Len(original_data) < 14 THEN "poor_short_series"
    ELSE IF Len(original_data) < 30 THEN "fair_medium_series"
    ELSE IF peaks = <<>> THEN "poor_no_peaks"
    ELSE IF RLt(peaks[1].relative_strength, Rat(3, 10))
         THEN "fair_weak_signal"
    ELSE IF RGt(peaks[1].relative_strength, Rat(7, 10))
         THEN "excellent_strong_signal"
    ELSE "good_moderate_signal"

CycleRaised == [status |-> "raised", peaks |-> <<>>, dominant_period |-> None,
                analysis_quality |-> "none"]

EmptyReport(quality) ==
    [status |-> "returned", peaks |-> <<>>, dominant_period |-> None,
     analysis_quality |-> quality]

\* analyze_cycles past the length guard, on the series d whose spectrum is
\* x, pre being what _preprocess_data gave.  scipy's fft raises ValueError
\* on an empty array; NaN amplitudes are above no height and give no peak.
AnalyzeSpectrum(d, x, pre) ==
    IF pre.status = "raised" \/ pre.n = 0 THEN CycleRaised
    ELSE IF ValidBins(pre.n) = {} THEN EmptyReport("no_valid_periods")
    ELSE LET found == IF pre.finite THEN find_peaks(x) ELSE <<>>
             peak_info == SortedByAmplitude(
                              [i \in 1..Len(found) |->
                                   PeakInfo(pre.n, x, found[i])])
         IN  [status |-> "returned",
              peaks |-> peak_info,
              dominant_period |->
                  IF peak_info # <<>> THEN Some(peak_info[1].period) ELSE None,
              analysis_quality |-> assess_analysis_quality(d, peak_info)]

\* mutant: the length guard one too low
analyze_cycles_Guard3(d, x, pre) ==
    IF Len(d) < 3 THEN EmptyReport("insufficient_data")
    ELSE AnalyzeSpectrum(d, x, pre)

analyze_cycles(d, x, pre) ==
    IF Len(d) < 4 THEN EmptyReport("insufficient_data")
    ELSE AnalyzeSpectrum(d, x, pre)

\* the stages analyze_cycles entered before it returned or raised
StepsOf(d, pre) ==
    IF Len(d) < 4 THEN {}
    ELSE IF pre.status = "raised" THEN {"preprocess"}
    ELSE IF pre.n = 0 THEN {"preprocess", "fft"}
    ELSE IF ValidBins(pre.n) = {} THEN {"preprocess", "fft"}
    ELSE {"preprocess", "fft", "find_peaks", "assess"}

\* np.mean of a slice: NaN when it is empty or holds a NaN
MeanOrNaN(d) ==
    IF d = <<>> \/ HasNaN(d) THEN NaN
    ELSE Some(Mean([i \in 1..Len(d) |-> Val(d[i])]))

\* mood_data[-7:] if len(mood_data) >= 7 else mood_data
Recent(d) == IF Len(d) >= 7 THEN SubSeq(d, Len(d) - 6, Len(d)) ELSE d

\* np.clip(x, 1, 10)
Clip(x) ==
    IF RLt(x, RInt(1)) THEN RInt(1)
    ELSE IF RGt(x, RInt(10)) THEN RInt(10) ELSE x

\* sin(2 pi i / period) is irrational in general: a value of it is drawn
\* from samples of its range
SinSamples == {RInt(-1), RInt(0), RInt(1)}

TopPeaks(analysis) ==
    SubSeq(analysis.peaks, 1,
           IF Len(analysis.peaks) < 3 THEN Len(analysis.peaks) ELSE 3)

\* predict_mood_trend given the analysis of d; sins[i][j] is the sine of
\* cycle j at future day i
predict_mood_trend(d, days_ahead, analysis, sins) ==
    IF analysis.status = "raised" THEN
        [status |-> "raised", days_ahead |-> days_ahead, values |-> <<>>,
         peaks |-> 0]
    ELSE IF analysis.peaks = <<>> THEN
        [status |-> "returned", days_ahead |-> days_ahead,
         values |-> [i \in 1..days_ahead |-> MeanOrNaN(Recent(d))],
         peaks |-> 0]
    ELSE
        [status |-> "returned", days_ahead |-> days_ahead,
         values |->
             [i \in 1..days_ahead |->
                 IF MeanOrNaN(d) = NaN THEN NaN
                 ELSE Some(Clip(RAdd(
                          RSum([j \in 1..Len(TopPeaks(analysis)) |->
                                   RMul(RMul(TopPeaks(analysis)[j].amplitude,
                                             Rat(1, 2)),
                                        sins[i][j])]),
                          Val(MeanOrNaN(d)))))],
         peaks |-> Len(analysis.peaks)]

-----------------------------------------------------------------------------
(* TextCleaner (backend/utils/text_cleaning.py) over a small lexicon.      *)
(* A raw text is a sequence of raw words; a cleaned text is the sequence   *)
(* of its tokens, the empty sequence being the empty string.               *)

\* clean_text: text.lower()
Lower(w) ==
    CASE w = "The" -> "the"
      [] w = "Work" -> "work"
      [] OTHER -> w

\* stopwords.words('english'), the part of it that meets the lexicon
NltkStopWords == {"the", "my"}

\* WordNetLemmatizer.lemmatize
Lemmatize(w) == IF w = "meetings" THEN "meeting" ELSE w

\* preprocess_for_analysis: lower, drop stopwords and tokens of at most 2
\* characters, lemmatize
preprocess_for_analysis(text) ==
    LET lowered == [i \in 1..Len(text) |-> Lower(text[i])]
        kept == SelectSeq(lowered,
                          LAMBDA w : w \notin NltkStopWords /\ Len(w) > 2)
    IN  [i \in 1..Len(kept) |-> Lemmatize(kept[i])]

TextStop == <<"The", "ok">>
TextWork == <<"Work", "meetings", "boss">>
TextFamily == <<"my", "family">>
TextFound == <<"found">>

-----------------------------------------------------------------------------
(* JournalClusterer (backend/models/journal_cluster.py).                   *)
(*                                                                         *)
(* TF-IDF weights, KMeans and the silhouette score are real-valued and are *)
(* not computed.  A row of the TF-IDF matrix is the set of vocabulary      *)
(* terms of its document.  KMeans with random_state=42 and the silhouette  *)
(* score are deterministic functions of the matrix: their values for an    *)
(* input are drawn once, with the input (the seed of that input), and      *)
(* every call on that input reads the same values.  KMeans gives equal     *)
(* rows equal labels.                                                      *)

\* JournalClusterer.__init__ defaults
max_clusters == 8
min_cluster_size == 3

\* bound of the text lists explored
MaxTexts == 7

\* sklearn's ENGLISH_STOP_WORDS, the part of it that meets the lexicon
SklearnStopWords == {"the", "my", "found"}

\* the two TfidfVectorizer configurations of cluster_entries
StrictConfig ==
    [name |-> "strict", max_features |-> 1000, ngram_max |-> 2,
     min_df |-> 2, max_df |-> Rat(8, 10)]
FallbackConfig ==
    [name |-> "fallback", max_features |-> 100, ngram_max |-> 1,
     min_df |-> 1, max_df |-> RInt(1)]

\* the n-grams of a cleaned text, stop words removed first
Terms(cfg, doc) ==
    LET toks == SelectSeq(doc, LAMBDA w : w \notin SklearnStopWords)
    IN  {<<toks[i]>> : i \in 1..Len(toks)}
           \cup (IF cfg.ngram_max >= 2
                 THEN {<<toks[i], toks[i + 1]>> : i \in 1..(Len(toks) - 1)}
                 ELSE {})

\* TfidfVectorizer.fit: ValueError for an empty vocabulary and when no term
\* has min_df <= df <= max_df * n_docs; the vocabularies here stay below
\* max_features
FitVocabulary(cfg, docs) ==
    LET terms == [i \in 1..Len(docs) |-> Terms(cfg, docs[i])]
        all == UNION {terms[i] : i \in 1..Len(docs)}
        df == [t \in all |->
                  Cardinality({i \in 1..Len(docs) : t \in terms[i]})]
        max_doc_count == RMul(cfg.max_df, RInt(Len(docs)))
        kept == {t \in all :
                    df[t] >= cfg.min_df /\ RLe(RInt(df[t]), max_doc_count)}
    IN  IF all = {} \/ kept = {} \/ RLt(max_doc_count, RInt(cfg.min_df))
        THEN [ok |-> FALSE, vocabulary |-> {}]
        ELSE [ok |-> TRUE, vocabulary |-> kept]

\* self.vectorizer after the try/except of cluster_entries
Vectorize(docs) ==
    LET strict == FitVocabulary(StrictConfig, docs)
        fallback == FitVocabulary(FallbackConfig, docs)
    IN  IF strict.ok
        THEN [config |-> StrictConfig, fitted |-> TRUE,
              vocabulary |-> strict.vocabulary]
        ELSE [config |-> FallbackConfig, fitted |-> fallback.ok,
              vocabulary |-> fallback.vocabulary]

\* valid_indices (0-based) and valid_texts: the texts that preprocessing
\* leaves non-empty
ValidIndices(texts) ==
    SortedSeq({i - 1 : i \in {j \in 1..Len(texts) :
                                  preprocess_for_analysis(texts[j]) # <<>>}})

ValidTexts(texts) ==
    LET valid_indices == ValidIndices(texts)
    IN  [i \in 1..Len(valid_indices) |->
             preprocess_for_analysis(texts[valid_indices[i] + 1])]

\* the rows of tfidf_matrix
Rows(vec, docs) ==
    [i \in 1..Len(docs) |-> Terms(vec.config, docs[i]) \cap vec.vocabulary]

RowSet(rows) == {rows[i] : i \in 1..Len(rows)}

IntMin(a, b) == IF a < b THEN a ELSE b

MaxK(n_samples) == IntMin(max_clusters, n_samples \div 2)

\* silhouette scores drawn for a partition, and the orders in which
\* argsort can rank the terms of a centroid
ScoreLevels == {Rat(1, 5), Rat(1, 2)}
KeywordOrders == {"ascending", "descending"}

\* whether cluster_entries gets as far as extracting keywords, and as far
\* as KMeans for more than one cluster
ReachesThemes(texts) ==
    /\ Len(texts) >= 6
    /\ Len(ValidTexts(texts)) >= 3
    /\ Vectorize(ValidTexts(texts)).fitted

NeedsKMeans(texts) == ReachesThemes(texts) /\ Len(ValidTexts(texts)) >= 6

LabelsUsed(seed, k, rows) == {seed.labels[k][r] : r \in RowSet(rows)}

\* silhouette_score raises ValueError unless 2 <= n_labels <= n_samples - 1
SilhouetteRaises(seed, k, rows) ==
    \/ Cardinality(LabelsUsed(seed, k, rows)) < 2
    \/ Cardinality(LabelsUsed(seed, k, rows)) > Len(rows) - 1

\* the seeds of an input: labels[k] is what KMeans(n_clusters=k,
\* random_state=42) assigns to each row, score[k] the silhouette score of
\* that partition where silhouette_score gives one, order the ranking of
\* the terms of a centroid
NoSeed == [labels |-> <<>>, score |-> <<>>, order |-> "ascending"]

Seeds(texts) ==
    IF ~ReachesThemes(texts) THEN {NoSeed}
    ELSE IF ~NeedsKMeans(texts)
    THEN {[NoSeed EXCEPT !.order = o] : o \in KeywordOrders}
    ELSE LET docs == ValidTexts(texts)
             rows == Rows(Vectorize(docs), docs)
             Ks == 2..MaxK(Len(rows))
             L == {f \in [Ks -> [RowSet(rows) -> 0..(MaxK(Len(rows)) - 1)]] :
                      \A k \in Ks : \A r \in RowSet(rows) : f[k][r] < k}
             all == {[labels |-> l, score |-> s, order |-> o] :
                        l \in L, s \in [Ks -> ScoreLevels],
                        o \in KeywordOrders}
         IN  {seed \in all :
                  \A k \in Ks : SilhouetteRaises(seed, k, rows) =>
                                    seed.score[k] = Rat(1, 5)}

\* mutant: a score equal to the best one replaces it
RECURSIVE BestFrom_LastOnTies(_, _, _, _)
BestFrom_LastOnTies(k, best, seed, rows) ==
    IF k > MaxK(Len(rows)) THEN best
    ELSE IF SilhouetteRaises(seed, k, rows)
         THEN BestFrom_LastOnTies(k + 1, best, seed, rows)
    ELSE IF RGe(seed.score[k], best.score)
         THEN BestFrom_LastOnTies(k + 1, [score |-> seed.score[k], k |-> k],
                                  seed, rows)
    ELSE BestFrom_LastOnTies(k + 1, best, seed, rows)

\* the loop of _find_optimal_clusters from k on; best is (best_score, best_k)
RECURSIVE BestFrom(_, _, _, _)
BestFrom(k, best, seed, rows) ==
    IF k > MaxK(Len(rows)) THEN best
    ELSE IF SilhouetteRaises(seed, k, rows)
         THEN BestFrom(k + 1, best, seed, rows)
    ELSE IF RGt(seed.score[k], best.score)
         THEN BestFrom(k + 1, [score |-> seed.score[k], k |-> k], seed, rows)
    ELSE BestFrom(k + 1, best, seed, rows)

find_optimal_clusters(seed, rows) ==
    IF Len(rows) < 6 THEN 1
    ELSE IF MaxK(Len(rows)) < 2 THEN 1
    ELSE LET best == BestFrom(2, [score |-> RInt(-1), k |-> 2], seed, rows)
         IN  IF RGt(best.score, Rat(2, 10)) THEN best.k ELSE 1

\* cluster_labels of the final KMeans(n_clusters=k, random_state=42)
ClusterLabels(seed, k, rows) ==
    [i \in 1..Len(rows) |-> IF k = 1 THEN 0 ELSE seed.labels[k][rows[i]]]

\* mutant: the entry indices counted from 1
ClusterIndices_OneBased(valid_indices, labels, cluster_id) ==
    LET members == SelectSeq([i \in 1..Len(labels) |-> i],
                             LAMBDA i : labels[i] = cluster_id)
    IN  [j \in 1..Len(members) |-> valid_indices[members[j]] + 1]

\* [valid_indices[i] for i, label in enumerate(cluster_labels)
\*      if label == cluster_id]
ClusterIndices(valid_indices, labels, cluster_id) ==
    LET members == SelectSeq([i \in 1..Len(labels) |-> i],
                             LAMBDA i : labels[i] = cluster_id)
    IN  [j \in 1..Len(members) |-> valid_indices[members[j]]]

\* get_feature_names_out(): the terms in alphabetical order
FeatureOrder ==
    <<<<"boss">>, <<"family">>, <<"meeting">>, <<"meeting", "boss">>,
      <<"work">>, <<"work", "meeting">>>>

Reverse(s) == [i \in 1..Len(s) |-> s[Len(s) + 1 - i]]

\* the terms of S ranked by feature index, upwards or downwards
RankedSeq(S, order) ==
    LET upwards == SelectSeq(FeatureOrder, LAMBDA t : t \in S)
    IN  IF order = "ascending" THEN upwards ELSE Reverse(upwards)

Prefix(s, n) == SubSeq(s, 1, IntMin(n, Len(s)))

\* the terms of positive centroid weight among the 10 heaviest: a term
\* weighs more than 0 in the centroid when a row of the cluster holds it
TopKeywords(seed, rows, labels, cluster_id) ==
    LET present == UNION {rows[i] : i \in {j \in 1..Len(rows) :
                                               labels[j] = cluster_id}}
    IN  Prefix(RankedSeq(present, seed.order), 10)

\* theme_patterns, in dictionary order
ThemePatterns ==
    <<[title |-> "Work",
       words |-> {"work", "job", "office", "meeting", "project", "boss",
                  "colleague"}],
      [title |-> "Family",
       words |-> {"family", "mom", "dad", "parent", "child", "sister",
                  "brother"}],
      [title |-> "Relationships",
       words |-> {"relationship", "partner", "boyfriend", "girlfriend",
                  "love", "date"}],
      [title |-> "Health",
       words |-> {"health", "doctor", "pain", "sick", "medical", "exercise",
                  "tired"}],
      [title |-> "Anxiety",
       words |-> {"anxious", "worry", "nervous", "stress", "panic", "fear"}],
      [title |-> "Depression",
       words |-> {"sad", "depressed", "down", "hopeless", "empty", "lonely"}],
      [title |-> "Happiness",
       words |-> {"happy", "joy", "excited", "good", "great", "wonderful"}],
      [title |-> "Social",
       words |-> {"friends", "social", "party", "people", "conversation",
                  "event"}],
      [title |-> "Personal Growth",
       words |-> {"learn", "grow", "improve", "goal", "achievement",
                  "progress"}],
      [title |-> "Daily Life",
       words |-> {"day", "morning", "evening", "routine", "daily", "normal"}]>>

\* `word in keyword_str`: the marker words that occur inside a token of the
\* lexicon (no marker word holds a space, so none spans two tokens)
MarkersIn(token) ==
    CASE token = "work" -> {"work"}
      [] token = "meeting" -> {"meeting"}
      [] token = "boss" -> {"boss"}
      [] token = "family" -> {"family"}
      [] OTHER -> {}

Theme(kind, of) == [kind |-> kind, of |-> of]

\* _generate_theme_name: the first theme of the highest positive score,
\* else "<top keyword> Related", else "General Thoughts"
generate_theme_name(keywords) ==
    LET markers == UNION {MarkersIn(keywords[a][b]) :
                              <<a, b>> \in {<<c, d>> \in
                                  (1..Len(keywords)) \X (1..2) :
                                      d <= Len(keywords[c])}}
        theme_scores == [i \in 1..Len(ThemePatterns) |->
                            Cardinality(ThemePatterns[i].words \cap markers)]
        scored == {i \in 1..Len(ThemePatterns) : theme_scores[i] > 0}
    IN  IF scored # {}
        THEN LET best == CHOOSE i \in scored :
                             \A j \in scored :
                                 theme_scores[j] < theme_scores[i]
                                     \/ (theme_scores[j] = theme_scores[i]
                                             /\ i <= j)
             IN  Theme("named", <<ThemePatterns[best].title>>)
        ELSE IF keywords # <<>> THEN Theme("related", keywords[1])
        ELSE Theme("general", <<"General Thoughts">>)

\* _generate_cluster_description
generate_cluster_description(keywords, size) ==
    IF keywords = <<>>
    THEN [text |-> "A group of {size} entries with similar themes",
          focus |-> <<>>, size |-> size]
    ELSE [text |-> "Entries focusing on {focus} and related topics",
          focus |-> Prefix(keywords, 3), size |-> size]

\* mutant: a cluster of exactly min_cluster_size entries dropped as well
ClusterReport_DropsAtMinimum(seed, rows, labels, valid_indices, k, cluster_id) ==
    LET cluster_indices == ClusterIndices(valid_indices, labels, cluster_id)
        keywords == TopKeywords(seed, rows, labels, cluster_id)
    IN  IF Len(cluster_indices) <= min_cluster_size /\ k > 1 THEN <<>>
        ELSE <<[cluster_id |-> cluster_id,
                theme |-> generate_theme_name(keywords),
                keywords |-> Prefix(keywords, 5),
                entry_indices |-> cluster_indices,
                description |->
                    generate_cluster_description(keywords,
                                                 Len(cluster_indices)),
                size |-> Len(cluster_indices)]>>

\* one pass of the loop `for cluster_id in range(optimal_clusters)`
ClusterReport(seed, rows, labels, valid_indices, k, cluster_id) ==
    LET cluster_indices == ClusterIndices(valid_indices, labels, cluster_id)
        keywords == TopKeywords(seed, rows, labels, cluster_id)
    IN  IF Len(cluster_indices) < min_cluster_size /\ k > 1 THEN <<>>
        ELSE <<[cluster_id |-> cluster_id,
                theme |-> generate_theme_name(keywords),
                keywords |-> Prefix(keywords, 5),
                entry_indices |-> cluster_indices,
                description |->
                    generate_cluster_description(keywords,
                                                 Len(cluster_indices)),
                size |-> Len(cluster_indices)]>>

RECURSIVE ClusterReports(_, _, _, _, _, _)
ClusterReports(seed, rows, labels, valid_indices, k, cluster_id) ==
    IF cluster_id >= k THEN <<>>
    ELSE ClusterReport(seed, rows, labels, valid_indices, k, cluster_id)
             \o ClusterReports(seed, rows, labels, valid_indices, k,
                               cluster_id + 1)

FreshClusterer ==
    [vectorizer |-> None, clustering_model |-> None,
     clustering_quality |-> None]

\* mutant: the second early return taken only when no text is left
EarlyReturn_NoneLeft(texts) ==
    IF Len(texts) < 6 THEN
        <<[cluster_id |-> 0,
           theme |-> Theme("literal", <<"Insufficient data">>),
           keywords |-> <<>>,
           entry_indices |-> [i \in 1..Len(texts) |-> i - 1],
           description |-> "Need more entries for meaningful clustering"]>>
    ELSE IF Len(ValidTexts(texts)) = 0 THEN
        <<[cluster_id |-> 0,
           theme |-> Theme("literal", <<"Processing error">>),
           keywords |-> <<>>,
           entry_indices |-> ValidIndices(texts),
           description |-> "Unable to process texts for clustering"]>>
    ELSE <<>>

\* the report of the two early returns of cluster_entries, <<>> when the
\* call goes on to vectorize
EarlyReturn(texts) ==
    IF Len(texts) < 6 THEN
        <<[cluster_id |-> 0,
           theme |-> Theme("literal", <<"Insufficient data">>),
           keywords |-> <<>>,
           entry_indices |-> [i \in 1..Len(texts) |-> i - 1],
           description |-> "Need more entries for meaningful clustering"]>>
    ELSE IF Len(ValidTexts(texts)) < 3 THEN
        <<[cluster_id |-> 0,
           theme |-> Theme("literal", <<"Processing error">>),
           keywords |-> <<>>,
           entry_indices |-> ValidIndices(texts),
           description |-> "Unable to process texts for clustering"]>>
    ELSE <<>>

\* cluster_entries from KMeans on, for the fitted vectorizer vec, its
\* matrix rows and optimal_clusters = k: the state the clusterer is left in
\* and the outcome
FitAndCluster(vec, rows, valid_indices, seed, k) ==
    [self |->
         [vectorizer |-> Some(vec),
          clustering_model |-> Some([n_clusters |-> k]),
          clustering_quality |->
              IF k > 1 THEN Some(seed.score[k]) ELSE Some(RInt(0))],
     result |->
         [status |-> "returned",
          reports |-> ClusterReports(seed, rows, ClusterLabels(seed, k, rows),
                                     valid_indices, k, 0)]]

\* mutant: a single-cluster model left by an earlier call is kept
cluster_entries_KeepsModel(self, texts, seed) ==
    LET early == EarlyReturn(texts)
        docs == ValidTexts(texts)
        vec == Vectorize(docs)
        rows == Rows(vec, docs)
    IN  IF early # <<>>
        THEN [self |-> self,
              result |-> [status |-> "returned", reports |-> early]]
        ELSE IF ~vec.fitted
        THEN [self |-> [self EXCEPT !.vectorizer = Some(vec)],
              result |-> [status |-> "raised", reports |-> <<>>]]
        ELSE FitAndCluster(vec, rows, ValidIndices(texts), seed,
                           IF self.clustering_model = Some([n_clusters |-> 1])
                           THEN 1
                           ELSE find_optimal_clusters(seed, rows))

\* cluster_entries on the clusterer in state self: the state it leaves and
\* what it returns (the ValueError of the fallback vectorizer leaves the
\* method, with the unfitted vectorizer in self.vectorizer)
cluster_entries(self, texts, seed) ==
    LET early == EarlyReturn(texts)
        docs == ValidTexts(texts)
        vec == Vectorize(docs)
        rows == Rows(vec, docs)
    IN  IF early # <<>>
        THEN [self |-> self,
              result |-> [status |-> "returned", reports |-> early]]
        ELSE IF ~vec.fitted
        THEN [self |-> [self EXCEPT !.vectorizer = Some(vec)],
              result |-> [status |-> "raised", reports |-> <<>>]]
        ELSE FitAndCluster(vec, rows, ValidIndices(texts), seed,
                           find_optimal_clusters(seed, rows))

\* get_clustering_quality: self.clustering_quality or 0.0
get_clustering_quality(self) ==
    IF self.clustering_quality = None
           \/ Val(self.clustering_quality) = RInt(0)
    THEN RInt(0)
    ELSE Val(self.clustering_quality)

-----------------------------------------------------------------------------
(* Operations on the calculator.                                           *)

NoCall == [status |-> "none"]

\* no request has reached the score router, and its tables are empty
ScoreIdle ==
    /\ journal_entries = <<>>
    /\ mh_scores = <<>>
    /\ now = 0
    /\ score_response = NoCall

\* the analyzers a specification does not exercise stay as constructed
IndexIdle ==
    /\ entries = <<>>
    /\ weights = InitialWeights
    /\ index_result = NoCall
    /\ computed = {}
    /\ interpretation = NoCall
    /\ recommendations = NoCall
    /\ ScoreIdle

CycleIdle ==
    /\ mood_data = <<>>
    /\ spectrum = <<>>
    /\ cycle_report = NoCall
    /\ cycle_steps = {}
    /\ forecast = NoCall
    /\ cycle_insights = NoCall

EmotionIdle ==
    /\ mood_ratings = <<>>
    /\ sentiment_scores = <<>>
    /\ emotion_result = NoCall

ClusterIdle ==
    /\ journal_texts = <<>>
    /\ seeded = <<>>
    /\ clusterer = FreshClusterer
    /\ clusterer_before = FreshClusterer
    /\ cluster_result = NoCall
    /\ EmotionIdle

IndexInit ==
    /\ entries \in EntryLists
    /\ weights = InitialWeights
    /\ index_result = NoCall
    /\ computed = {}
    /\ interpretation = NoCall
    /\ recommendations = NoCall
    /\ ScoreIdle
    /\ CycleIdle
    /\ ClusterIdle

\* mh_calculator.calculate_index(entries)
CalculateIndex ==
    /\ index_result.status = "none"
    /\ index_result' = calculate_index(weights, entries)
    /\ computed' = ComputedBy(entries)
    /\ UNCHANGED <<entries, weights, interpretation, recommendations>>
    /\ UNCHANGED scoreVars
    /\ UNCHANGED <<cycleVars, clusterVars>>

\* get_interpretation(index)
GetInterpretation(index) ==
    /\ interpretation' =
           [status |-> "returned", index |-> index,
            text |-> get_interpretation(index)]
    /\ UNCHANGED <<entries, weights, index_result, computed, recommendations>>
    /\ UNCHANGED scoreVars
    /\ UNCHANGED <<cycleVars, clusterVars>>

InterpretResult ==
    /\ index_result.status = "returned"
    /\ interpretation.status = "none"
    /\ GetInterpretation(index_result.index)

\* get_recommendations(components); components[...] of {} raises KeyError
GetRecommendations ==
    /\ index_result.status = "returned"
    /\ recommendations.status = "none"
    /\ recommendations' =
           IF DOMAIN index_result.components = {}
           THEN [status |-> "raised", list |-> <<>>]
           ELSE [status |-> "returned",
                 list |-> get_recommendations(index_result.components)]
    /\ UNCHANGED <<entries, weights, index_result, computed, interpretation>>
    /\ UNCHANGED scoreVars
    /\ UNCHANGED <<cycleVars, clusterVars>>

Init == IndexInit

Next == CalculateIndex \/ InterpretResult \/ GetRecommendations

Spec == Init /\ [][Next]_vars

-----------------------------------------------------------------------------
(* Operations on the FourierAnalyzer.                                      *)

\* series of present values on any scale, and series with missing values
SeriesInputs ==
    Lists({Some(RInt(5)), Some(RInt(20))}, MaxSeries)
        \cup Lists({NaN, Some(RInt(5))}, MaxSeries)

CycleInit ==
    /\ IndexIdle
    /\ ClusterIdle
    /\ mood_data \in SeriesInputs
    /\ spectrum \in Spectra(mood_data)
    /\ cycle_report = NoCall
    /\ cycle_steps = {}
    /\ forecast = NoCall
    /\ cycle_insights = NoCall

\* fourier_analyzer.analyze_cycles(mood_data)
AnalyzeCycles ==
    /\ cycle_report.status = "none"
    /\ \E pre \in PreprocessOutcomes(mood_data) :
          /\ cycle_report' = analyze_cycles(mood_data, spectrum, pre)
          /\ cycle_steps' = StepsOf(mood_data, pre)
    /\ UNCHANGED <<mood_data, spectrum, forecast, cycle_insights>>
    /\ UNCHANGED <<indexVars, clusterVars>>

\* fourier_analyzer.predict_mood_trend(mood_data, days_ahead)
PredictMoodTrend ==
    /\ forecast.status = "none"
    /\ \E days_ahead \in 0..MaxHorizon :
       \E pre \in PreprocessOutcomes(mood_data) :
          LET analysis == analyze_cycles(mood_data, spectrum, pre)
          IN  \E sins \in [1..days_ahead ->
                              [1..Len(TopPeaks(analysis)) -> SinSamples]] :
                  forecast' = predict_mood_trend(mood_data, days_ahead,
                                                 analysis, sins)
    /\ UNCHANGED <<mood_data, spectrum, cycle_report, cycle_steps,
                   cycle_insights>>
    /\ UNCHANGED <<indexVars, clusterVars>>

CycleNext == AnalyzeCycles \/ PredictMoodTrend

SpecCycle == CycleInit /\ [][CycleNext]_vars

-----------------------------------------------------------------------------
(* get_interpretation over a grid of scores.                               *)

\* scores k / ScoreDen for k in -ScoreSteps .. 10 * ScoreDen + ScoreSteps
ScoreDen == 10
ScoreSteps == 10

ScoreGrid ==
    {Rat(k, ScoreDen) : k \in (0 - ScoreSteps)..(10 * ScoreDen + ScoreSteps)}

InterpretInit == IndexIdle /\ CycleIdle /\ ClusterIdle

InterpretScore == \E s \in ScoreGrid : GetInterpretation(s)

SpecInterpret == InterpretInit /\ [][InterpretScore]_vars

-----------------------------------------------------------------------------
(* Operations on JournalClusterer.                                         *)

\* a list of a copies of one text, then b of another, then c of a third
Blocks(ta, a, tb, b, tc, c) ==
    [i \in 1..(a + b + c) |->
        IF i <= a THEN ta ELSE IF i <= a + b THEN tb ELSE tc]

\* work entries, then entries that preprocessing empties, then family
\* entries; and entries without a term, then family entries
TextLists ==
    {Blocks(TextWork, a, TextStop, b, TextFamily, c) :
         <<a, b, c>> \in {<<x, y, z>> \in
             (0..MaxTexts) \X (0..MaxTexts) \X (0..MaxTexts) :
                 x + y + z <= MaxTexts}}
        \cup {Blocks(TextFound, a, TextFound, 0, TextFamily, c) :
                  <<a, c>> \in {<<x, z>> \in (0..MaxTexts) \X (0..MaxTexts) :
                      x + z <= MaxTexts}}

\* one input, with what the seeded algorithms give on it
ClusterInit ==
    /\ IndexIdle
    /\ CycleIdle
    /\ journal_texts = <<>>
    /\ \E t \in TextLists : \E s \in Seeds(t) : seeded = [u \in {t} |-> s]
    /\ clusterer = FreshClusterer
    /\ clusterer_before = FreshClusterer
    /\ cluster_result = NoCall
    /\ EmotionIdle

\* clusterer.cluster_entries(texts)
ClusterEntries ==
    /\ \E t \in DOMAIN seeded :
           LET call == cluster_entries(clusterer, t, seeded[t])
           IN  /\ journal_texts' = t
               /\ clusterer_before' = clusterer
               /\ clusterer' = call.self
               /\ cluster_result' = call.result
    /\ UNCHANGED <<indexVars, cycleVars, seeded, emotionVars>>

\* clusterer = JournalClusterer()
NewClusterer ==
    /\ clusterer' = FreshClusterer
    /\ UNCHANGED <<indexVars, cycleVars, journal_texts, seeded,
                   clusterer_before, cluster_result, emotionVars>>

\* the first call on a new clusterer
ClusterFirst == cluster_result.status = "none" /\ ClusterEntries

ClusterNext == ClusterFirst

SpecCluster == ClusterInit /\ [][ClusterNext]_vars

\* three inputs that leave the clusterer in different states: two themes,
\* too few entries, one term in the three entries that preprocessing keeps
InputTwoThemes ==
    <<TextWork, TextFamily, TextWork, TextFamily, TextWork, TextFamily>>
InputShort == <<TextWork, TextFamily>>
InputOneTerm ==
    <<TextStop, TextFamily, TextStop, TextFamily, TextStop, TextFamily>>
ReclusterInputs == {InputTwoThemes, InputShort, InputOneTerm}

ReclusterInit ==
    /\ IndexIdle
    /\ CycleIdle
    /\ journal_texts = <<>>
    /\ seeded \in {[t \in ReclusterInputs |->
                       IF t = InputTwoThemes THEN a
                       ELSE IF t = InputShort THEN b ELSE c] :
                      a \in Seeds(InputTwoThemes), b \in Seeds(InputShort),
                      c \in Seeds(InputOneTerm)}
    /\ clusterer = FreshClusterer
    /\ clusterer_before = FreshClusterer
    /\ cluster_result = NoCall
    /\ EmotionIdle

ReclusterNext == ClusterEntries \/ NewClusterer

SpecRecluster == ReclusterInit /\ [][ReclusterNext]_vars

-----------------------------------------------------------------------------
(* Properties of MentalHealthIndex.                                        *)

Returned == index_result.status = "returned"
Called == index_result.status # "none"
AllMoodsPresent == \A i \in 1..Len(entries) : entries[i].mood_rating # None
InUnit(lo, hi, x) == RLe(RInt(lo), x) /\ RLe(x, RInt(hi))

\* the weighted sum of the returned components under the documented weights
DocumentedSum ==
    LET c == index_result.components
    IN  RAdd(RAdd(RAdd(RAdd(RMul(Rat(3, 10), c.mood_average),
                            RMul(Rat(2, 10), c.mood_stability)),
                       RMul(Rat(2, 10), c.sentiment_average)),
                  RMul(Rat(15, 100), c.consistency)),
             RMul(Rat(15, 100), c.trend))

\* C1: for a non-empty entry list, whatever the present mood and sentiment
\* values, the returned score is the weighted sum of the five returned
\* components under the weights 0.3, 0.2, 0.2, 0.15, 0.15 (which sum to 1),
\* clamped to [0,10]; so the score lies in [0,10].  A list without absent
\* moods always gets a score.
C1_ScoreIsClampedWeightedSum ==
    (Called /\ entries # <<>>) =>
        /\ AllMoodsPresent => Returned
        /\ Returned =>
              /\ index_result.index =
                     (IF RLt(DocumentedSum, RInt(0)) THEN RInt(0)
                      ELSE IF RGt(DocumentedSum, RInt(10)) THEN RInt(10)
                      ELSE DocumentedSum)
              /\ InUnit(0, 10, index_result.index)
              /\ RSum(<<index_result.weights.mood_average,
                        index_result.weights.mood_stability,
                        index_result.weights.sentiment_average,
                        index_result.weights.consistency,
                        index_result.weights.trend>>) = RInt(1)

\* a score was returned for out-of-range values whose weighted sum exceeds
\* 10 and was clamped
C1_Witness ==
    /\ Returned /\ entries # <<>>
    /\ \E i \in 1..Len(entries) : entries[i].mood_rating = Some(RInt(40))
    /\ RGt(DocumentedSum, RInt(10))
    /\ index_result.index = RInt(10)

\* C4: calculate_index with zero entries returns exactly (0.0, {}) and
\* computes no component.
C4_EmptyInputReturnsZero ==
    (Called /\ entries = <<>>) =>
        /\ Returned
        /\ index_result.index = RInt(0)
        /\ DOMAIN index_result.components = {}
        /\ computed = {}

C4_Witness == Returned /\ entries = <<>> /\ index_result.index = RInt(0)

\* C7: get_interpretation maps every score to exactly one band with
\* inclusive lower boundaries 8, 6.5, 5 and 3.5; 8.0 is excellent, 5.0 is
\* moderate and 3.4 is poor.
C7_InterpretationBands ==
    interpretation.status = "returned" =>
        LET s == interpretation.index
            t == interpretation.text
        IN  /\ RGe(s, RInt(8)) <=> t = "Excellent mental health"
            /\ (RGe(s, Rat(65, 10)) /\ RLt(s, RInt(8)))
                   <=> t = "Good mental health"
            /\ (RGe(s, RInt(5)) /\ RLt(s, Rat(65, 10)))
                   <=> t = "Moderate mental health"
            /\ (RGe(s, Rat(35, 10)) /\ RLt(s, RInt(5)))
                   <=> t = "Concerning mental health"
            /\ RLt(s, Rat(35, 10))
                   <=> t = "Poor mental health - consider seeking support"

\* the boundary score 8.0 was interpreted as excellent
C7_Witness ==
    /\ interpretation.status = "returned"
    /\ interpretation.index = RInt(8)
    /\ interpretation.text = "Excellent mental health"

HalfMoods(half) == [i \in 1..Len(half) |-> Val(half[i].mood_rating)]

\* the newer half's mean mood exceeds the older half's by more than 1.0
RisingByMoreThanOne ==
    /\ Len(entries) >= 4
    /\ AllMoodsPresent
    /\ RGt(RSub(Mean(HalfMoods(RecentHalf(entries))),
                Mean(HalfMoods(OlderHalf(entries)))), RInt(1))

InList(x, l) == \E i \in 1..Len(l) : l[i] = x

\* C8: for at least 4 entries whose newer half (in time order) has a mean
\* mood more than 1.0 above the older half's, the trend component exceeds 7
\* and get_recommendations on the returned components gives the
\* upward-trend message and not the declining-trend message.
C8_RisingTrendFlagged ==
    (Called /\ RisingByMoreThanOne) =>
        /\ Returned
        /\ RGt(index_result.components.trend, RInt(7))
        /\ recommendations.status # "none" =>
              /\ recommendations.status = "returned"
              /\ InList(RecUpward, recommendations.list)
              /\ ~InList(RecDeclining, recommendations.list)

C8_Witness ==
    /\ Returned /\ RisingByMoreThanOne
    /\ recommendations.status = "returned"
    /\ InList(RecUpward, recommendations.list)

\* all entries carry the mood m and the sentiment s
ConstantEntries(m, s) ==
    \A i \in 1..Len(entries) :
        /\ entries[i].mood_rating = Some(m)
        /\ entries[i].sentiment_score = Some(s)

\* C9: at least 2 entries that all carry the same mood m in [1,10] and the
\* same sentiment s in [0,1] give mood_average = m, mood_stability = 10 and
\* sentiment_average = 10 * s.
C9_ConstantEntries ==
    (Called /\ Len(entries) >= 2 /\ AllMoodsPresent
        /\ entries[1].sentiment_score # None
        /\ InUnit(1, 10, Val(entries[1].mood_rating))
        /\ InUnit(0, 1, Val(entries[1].sentiment_score))
        /\ ConstantEntries(Val(entries[1].mood_rating),
                           Val(entries[1].sentiment_score))) =>
        /\ Returned
        /\ index_result.components.mood_average = Val(entries[1].mood_rating)
        /\ index_result.components.mood_stability = RInt(10)
        /\ index_result.components.sentiment_average =
               RMul(RInt(10), Val(entries[1].sentiment_score))

\* four entries of mood 10 and sentiment 0.8 were scored 10, 10 and 8
C9_Witness ==
    /\ Returned /\ Len(entries) = 4
    /\ ConstantEntries(RInt(10), Rat(8, 10))
    /\ index_result.components.mood_average = RInt(10)
    /\ index_result.components.mood_stability = RInt(10)
    /\ index_result.components.sentiment_average = RInt(8)

\* every present mood lies in [1,10] and every present sentiment in [0,1]
InDocumentedRanges ==
    \A i \in 1..Len(entries) :
        /\ entries[i].mood_rating # None =>
               InUnit(1, 10, Val(entries[i].mood_rating))
        /\ entries[i].sentiment_score # None =>
               InUnit(0, 1, Val(entries[i].sentiment_score))

\* C10: for a non-empty list with values in the documented ranges, each of
\* the five returned components lies in [0,10], mood_stability is at least
\* 1, and the day span that divides the entry count is at least 1.
C10_ComponentsInRange ==
    (Returned /\ entries # <<>> /\ InDocumentedRanges) =>
        /\ \A n \in ComponentNames :
               InUnit(0, 10, index_result.components[n])
        /\ RGe(index_result.components.mood_stability, RInt(1))
        /\ DateRange(entries) >= 1

\* the floor of mood_stability acted: the variance exceeds 9
C10_Witness ==
    /\ Returned /\ entries # <<>> /\ InDocumentedRanges
    /\ Len(MoodsPresent(entries)) >= 2
    /\ RGt(Var(MoodsPresent(entries)), RInt(9))
    /\ index_result.components.mood_stability = RInt(1)
    /\ RLt(index_result.components.consistency, RInt(10))

-----------------------------------------------------------------------------
(* Properties of FourierAnalyzer.                                          *)

\* C2: for every mood series of real values, of any length >= 1 and any
\* scale, and every horizon H, predict_mood_trend returns exactly H values,
\* each within [1,10], whether or not peaks were detected.
C2_ForecastWithinMoodScale ==
    (forecast.status # "none" /\ Len(mood_data) >= 1 /\ ~HasNaN(mood_data)) =>
        /\ forecast.status = "returned"
        /\ Len(forecast.values) = forecast.days_ahead
        /\ \A i \in 1..Len(forecast.values) :
               /\ forecast.values[i] # NaN
               /\ InUnit(1, 10, Val(forecast.values[i]))

\* C3: for every mood series of length 0, 1, 2 or 3, analyze_cycles returns
\* analysis_quality 'insufficient_data', no peaks and no dominant period,
\* and neither preprocesses nor transforms the data.
C3_ShortSeriesInsufficient ==
    (cycle_report.status # "none" /\ Len(mood_data) < 4) =>
        /\ cycle_report.status = "returned"
        /\ cycle_report.analysis_quality = "insufficient_data"
        /\ cycle_report.peaks = <<>>
        /\ cycle_report.dominant_period = None
        /\ cycle_steps = {}

\* a series of three values was analyzed
C3_Witness ==
    /\ Len(mood_data) = 3
    /\ cycle_report.status = "returned"
    /\ cycle_report.analysis_quality = "insufficient_data"

-----------------------------------------------------------------------------
(* Properties of JournalClusterer.                                         *)

ClusterReturned == cluster_result.status = "returned"

IndexSet(report) ==
    {report.entry_indices[i] : i \in 1..Len(report.entry_indices)}

\* C5: for every input list of texts, the entry_indices of the reports
\* returned by cluster_entries are pairwise disjoint, and every index in
\* them is a valid index of the input list (0 <= i < len(texts)).
C5_EntryIndicesPartition ==
    ClusterReturned =>
        LET reports == cluster_result.reports
        IN  /\ \A a, b \in 1..Len(reports) :
                   a # b => IndexSet(reports[a]) \cap IndexSet(reports[b]) = {}
            /\ \A a \in 1..Len(reports) :
                   \A i \in IndexSet(reports[a]) :
                       0 <= i /\ i < Len(journal_texts)

\* two clusters reported, and an entry left out of both by preprocessing
C5_Witness ==
    /\ ClusterReturned
    /\ Len(cluster_result.reports) = 2
    /\ IndexSet(cluster_result.reports[1]) # {}
    /\ IndexSet(cluster_result.reports[2]) # {}
    /\ Len(ValidIndices(journal_texts)) < Len(journal_texts)

\* the partition and the theme labels of an outcome
PartitionAndThemes(result) ==
    [status |-> result.status,
     clusters |-> [i \in 1..Len(result.reports) |->
                      [entry_indices |-> result.reports[i].entry_indices,
                       theme |-> result.reports[i].theme]]]

\* C6: clustering is deterministic: a cluster_entries call on a list of
\* texts returns the partition and the theme labels that a fresh clusterer
\* returns for that list, after any number of earlier calls on the same
\* clusterer with other inputs; so any two calls with the identical list
\* return identical partitions and theme labels.
C6_ClusteringDeterministic ==
    cluster_result.status # "none" =>
        PartitionAndThemes(cluster_result) =
            PartitionAndThemes(
                cluster_entries(FreshClusterer, journal_texts,
                                seeded[journal_texts]).result)

\* a call that split the two-theme input in two, on a clusterer that an
\* earlier call with another input had left with one cluster and another
\* vocabulary
C6_Witness ==
    /\ journal_texts = InputTwoThemes
    /\ ClusterReturned
    /\ Len(cluster_result.reports) = 2
    /\ clusterer_before.clustering_model = Some([n_clusters |-> 1])
    /\ clusterer_before.vectorizer # None
    /\ clusterer_before.vectorizer # clusterer.vectorizer

-----------------------------------------------------------------------------
(* Further properties of MentalHealthIndex.                                *)

\* C11: data sparsity never makes calculate_index fail: for every non-empty
\* entry list, whichever moods and sentiments are absent and however many
\* entries there are, calculate_index returns a score and the five
\* components without raising.
C11_SparsityNeverFails ==
    (Called /\ entries # <<>>) =>
        /\ Returned
        /\ DOMAIN index_result.components = ComponentNames

-----------------------------------------------------------------------------
(* Repeated invocations on the shared calculator (routers/score.py keeps   *)
(* one MentalHealthIndex for all requests).  index_result is the report as *)
(* it was returned; the mapping under its 'weights' key is the             *)
(* calculator's own self.weights, so a caller writing into that mapping    *)
(* writes the calculator's weights.                                        *)

SharedInputs == Lists(TimedEntries, 2)

SharedInit ==
    /\ entries \in SharedInputs
    /\ weights = InitialWeights
    /\ index_result = NoCall
    /\ computed = {}
    /\ interpretation = NoCall
    /\ recommendations = NoCall
    /\ ScoreIdle
    /\ CycleIdle
    /\ ClusterIdle

\* mh_calculator.calculate_index(entries), any number of times
CalculateIndexAgain ==
    /\ index_result' = calculate_index(weights, entries)
    /\ computed' = ComputedBy(entries)
    /\ UNCHANGED <<entries, weights, interpretation, recommendations>>
    /\ UNCHANGED scoreVars
    /\ UNCHANGED <<cycleVars, clusterVars>>

\* the caller: components['weights'][name] = 1.0 on a returned report
MutateReturnedWeights ==
    /\ index_result.status = "returned"
    /\ DOMAIN index_result.components # {}
    /\ \E name \in ComponentNames :
           weights' = [weights EXCEPT ![name] = RInt(1)]
    /\ UNCHANGED <<entries, index_result, computed, interpretation,
                   recommendations>>
    /\ UNCHANGED scoreVars
    /\ UNCHANGED <<cycleVars, clusterVars>>

SharedNext == CalculateIndexAgain \/ MutateReturnedWeights

SpecShared == SharedInit /\ [][SharedNext]_vars

\* C12: invocations share no mutable state: whatever a caller did to the
\* reports of earlier invocations, an invocation on the same calculator
\* returns the score, components and weights that a new calculator returns
\* for the same input.
C12_NoSharedMutableState ==
    Called =>
        index_result = calculate_index(InitialWeights, entries)

-----------------------------------------------------------------------------
(* analyze_cycles on series around the length thresholds of                *)
(* _assess_analysis_quality, with missing values at either end.            *)

\* the lengths on both sides of the thresholds 14 and 30
SignalLengths == {13, 14, 29, 30}

\* how many values are missing: none, one, half, just over half, all but a
\* few, all
MissingCounts(n) == {0, 1, n \div 2, (n \div 2) + 1, n - 7, n - 3, n}

\* n values of which m are missing, at the head or at the tail
SignalSeries(n, m, head) ==
    [i \in 1..n |->
        IF (head /\ i <= m) \/ (~head /\ i > n - m) THEN NaN
        ELSE Some(RInt(5))]

SignalInputs ==
    {SignalSeries(n, m, head) :
         <<n, m, head>> \in {<<a, b, c>> \in
             SignalLengths \X (0..30) \X BOOLEAN : b \in MissingCounts(a)}}

\* amplitude levels whose ratios fall on and on both sides of the
\* relative-strength thresholds 0.1, 0.3 and 0.7
SignalLevels == {0, 1, 3, 5, 7, 10}

\* the bins that carry a signal: the first three and the last two
SupportBins(m) == {1, 2, 3, m - 1, m} \cap (1..m)

\* spectra with at most two bins above zero
SignalSpectra(d) ==
    LET finite == {o \in PreprocessOutcomes(d) : o.finite}
    IN  IF Len(d) < 4 \/ finite = {} THEN {<<>>}
        ELSE LET m == Cardinality(ValidBins((CHOOSE o \in finite : TRUE).n))
             IN  {[i \in 1..m |-> IF i = p THEN a ELSE IF i = q THEN b ELSE 0] :
                      p \in SupportBins(m), q \in SupportBins(m),
                      a \in SignalLevels, b \in SignalLevels}

SignalInit ==
    /\ IndexIdle
    /\ ClusterIdle
    /\ mood_data \in SignalInputs
    /\ spectrum \in SignalSpectra(mood_data)
    /\ cycle_report = NoCall
    /\ cycle_steps = {}
    /\ forecast = NoCall
    /\ cycle_insights = NoCall

SignalNext == AnalyzeCycles

SpecSignal == SignalInit /\ [][SignalNext]_vars

-----------------------------------------------------------------------------
(* Further properties of FourierAnalyzer.                                  *)

CycleReturned == cycle_report.status = "returned"

MostlyMissing(d) == 2 * ValidCount(d) < Len(d)

\* C13: when more than half of the values of the series are missing, the
\* reported analysis_quality is none of fair_medium_series,
\* fair_weak_signal, good_moderate_signal and excellent_strong_signal.
C13_MostlyMissingIsPoor ==
    (CycleReturned /\ MostlyMissing(mood_data)) =>
        cycle_report.analysis_quality \notin
            {"fair_medium_series", "fair_weak_signal",
             "good_moderate_signal", "excellent_strong_signal"}

-----------------------------------------------------------------------------
(* The spectrum of a sampled sinusoid, in fixed point.  Values are kept   *)
(* as integers in units of 1/FixedScale; the sines, cosines and window    *)
(* coefficients are rounded to that unit.                                 *)

FixedScale == 1000

\* FixedScale * sin(2 pi j / 420) for j = 0..419, rounded: the angles of
\* the transform of 60 samples and of the sinusoids of the periods that
\* divide 420
SinTable ==
  <<
    0, 15, 30, 45, 60, 75, 90, 105, 119, 134, 149, 164,
    179, 193, 208, 223, 237, 252, 266, 280, 295, 309, 323, 337,
    351, 365, 379, 393, 407, 420, 434, 447, 461, 474, 487, 500,
    513, 526, 538, 551, 563, 576, 588, 600, 612, 623, 635, 647,
    658, 669, 680, 691, 702, 712, 723, 733, 743, 753, 763, 772,
    782, 791, 800, 809, 818, 826, 835, 843, 851, 858, 866, 873,
    881, 888, 894, 901, 907, 914, 920, 925, 931, 936, 941, 946,
    951, 956, 960, 964, 968, 971, 975, 978, 981, 984, 986, 989,
    991, 993, 995, 996, 997, 998, 999, 1000, 1000, 1000, 1000, 1000,
    999, 998, 997, 996, 995, 993, 991, 989, 986, 984, 981, 978,
    975, 971, 968, 964, 960, 956, 951, 946, 941, 936, 931, 925,
    920, 914, 907, 901, 894, 888, 881, 873, 866, 858, 851, 843,
    835, 826, 818, 809, 800, 791, 782, 772, 763, 753, 743, 733,
    723, 712, 702, 691, 680, 669, 658, 647, 635, 623, 612, 600,
    588, 576, 563, 551, 538, 526, 513, 500, 487, 474, 461, 447,
    434, 420, 407, 393, 379, 365, 351, 337, 323, 309, 295, 280,
    266, 252, 237, 223, 208, 193, 179, 164, 149, 134, 119, 105,
    90, 75, 60, 45, 30, 15, 0, -15, -30, -45, -60, -75,
    -90, -105, -119, -134, -149, -164, -179, -193, -208, -223, -237, -252,
    -266, -280, -295, -309, -323, -337, -351, -365, -379, -393, -407, -420,
    -434, -447, -461, -474, -487, -500, -513, -526, -538, -551, -563, -576,
    -588, -600, -612, -623, -635, -647, -658, -669, -680, -691, -702, -712,
    -723, -733, -743, -753, -763, -772, -782, -791, -800, -809, -818, -826,
    -835, -843, -851, -858, -866, -873, -881, -888, -894, -901, -907, -914,
    -920, -925, -931, -936, -941, -946, -951, -956, -960, -964, -968, -971,
    -975, -978, -981, -984, -986, -989, -991, -993, -995, -996, -997, -998,
    -999, -1000, -1000, -1000, -1000, -1000, -999, -998, -997, -996, -995, -993,
    -991, -989, -986, -984, -981, -978, -975, -971, -968, -964, -960, -956,
    -951, -946, -941, -936, -931, -925, -920, -914, -907, -901, -894, -888,
    -881, -873, -866, -858, -851, -843, -835, -826, -818, -809, -800, -791,
    -782, -772, -763, -753, -743, -733, -723, -712, -702, -691, -680, -669,
    -658, -647, -635, -623, -612, -600, -588, -576, -563, -551, -538, -526,
    -513, -500, -487, -474, -461, -447, -434, -420, -407, -393, -379, -365,
    -351, -337, -323, -309, -295, -280, -266, -252, -237, -223, -208, -193,
    -179, -164, -149, -134, -119, -105, -90, -75, -60, -45, -30, -15
  >>

Sin(j) == SinTable[(j % Len(SinTable)) + 1]
Cos(j) == Sin(j + Len(SinTable) \div 4)

\* np.hanning(60): FixedScale * (0.5 - 0.5 cos(2 pi t / 59)), rounded
HanningTable ==
  <<
    0, 3, 11, 25, 45, 69, 99, 133, 171, 213, 258, 306,
    356, 407, 460, 513, 566, 619, 670, 719, 765, 809, 849, 885,
    917, 944, 966, 982, 994, 999, 999, 994, 982, 966, 944, 917,
    885, 849, 809, 765, 719, 670, 619, 566, 513, 460, 407, 356,
    306, 258, 213, 171, 133, 99, 69, 45, 25, 11, 3, 0
  >>

RECURSIVE SumOver(_, _)
SumOver(f, n) == IF n = 0 THEN 0 ELSE f[n] + SumOver(f, n - 1)

\* data - np.polyval(np.polyfit(x, data, 1), x): the least-squares line,
\* taken about the centre of x
Detrended(y) ==
    LET n == Len(y)
        tc == [t \in 1..n |-> 2 * (t - 1) - (n - 1)]
        sy == SumOver(y, n)
        sty == SumOver([t \in 1..n |-> tc[t] * y[t]], n)
        stt == SumOver([t \in 1..n |-> tc[t] * tc[t]], n)
    IN  [t \in 1..n |-> y[t] - sy \div n - (tc[t] * sty) \div stt]

\* detrended * np.hanning(len(detrended))
Windowed(y) ==
    LET detrended == Detrended(y)
    IN  [t \in 1..Len(y) |-> (detrended[t] * HanningTable[t]) \div FixedScale]

\* the largest r with r * r <= v
RECURSIVE ISqrtBetween(_, _, _)
ISqrtBetween(lo, hi, v) ==
    IF lo = hi THEN lo
    ELSE LET mid == (lo + hi + 1) \div 2
         IN  IF mid * mid <= v THEN ISqrtBetween(mid, hi, v)
             ELSE ISqrtBetween(lo, mid - 1, v)

ISqrt(v) == ISqrtBetween(0, 46340, v)

\* np.abs(fft(w))[k]: the modulus of sum_t w[t] exp(-2 pi i k t / n)
Amplitude(w, k) ==
    LET n == Len(w)
        step == Len(SinTable) \div n
        re == SumOver([t \in 1..n |-> w[t] * Cos(k * (t - 1) * step)], n)
        im == SumOver([t \in 1..n |-> w[t] * Sin(k * (t - 1) * step)], n)
        r == re \div (10 * FixedScale)
        i == im \div (10 * FixedScale)
    IN  ISqrt(r * r + i * i)

Fixed(v) == (v.num * FixedScale) \div v.den

\* valid_amplitudes of the series d, which has no missing value
FixedSpectrum(d) ==
    LET y == [t \in 1..Len(d) |-> Fixed(Val(d[t]))]
        w == Windowed(y)
        bins == SortedSeq(ValidBins(Len(d)))
    IN  [i \in 1..Len(bins) |-> Amplitude(w, bins[i])]

\* the periods, amplitudes and phases of the sinusoids explored
SinusoidPeriods == {P \in 3..max_period : Len(SinTable) % P = 0}
SinusoidAmplitudes == {1, 2, 3}
SinusoidPhases == {0, 35, 105, 210}

\* 5 + A sin(2 pi t / P + phase) for t = 0..59
Sinusoid(P, A, phase) ==
    [t \in 1..Len(HanningTable) |->
        Some(Rat(5 * FixedScale
                     + A * Sin((t - 1) * (Len(SinTable) \div P) + phase),
                 FixedScale))]

SinusoidInputs ==
    {Sinusoid(P, A, phase) : P \in SinusoidPeriods, A \in SinusoidAmplitudes,
                             phase \in SinusoidPhases}

SinusoidInit ==
    /\ IndexIdle
    /\ ClusterIdle
    /\ mood_data \in SinusoidInputs
    /\ spectrum = FixedSpectrum(mood_data)
    /\ cycle_report = NoCall
    /\ cycle_steps = {}
    /\ forecast = NoCall
    /\ cycle_insights = NoCall

SinusoidNext == AnalyzeCycles

SpecSinusoid == SinusoidInit /\ [][SinusoidNext]_vars

WithinOneDay(period, P) ==
    /\ RLe(RSub(period, RInt(P)), RInt(1))
    /\ RGe(RSub(period, RInt(P)), RInt(-1))

\* the report names a dominant period within one day of P whose peak has a
\* relative strength above 0.5
FoundPeriod(P) ==
    /\ cycle_report.dominant_period # None
    /\ WithinOneDay(Val(cycle_report.dominant_period), P)
    /\ RGt(cycle_report.peaks[1].relative_strength, Rat(1, 2))

\* some frequency bin that find_peaks can report, which the first and the
\* last valid bin are not, has a period within one day of P
Resolved(P, n) ==
    \E k \in ValidBins(n) :
        /\ \E j \in ValidBins(n) : j < k
        /\ \E j \in ValidBins(n) : j > k
        /\ WithinOneDay(Rat(n, k), P)

\* C14: for a pure sinusoid of period P sampled daily over 60 samples,
\* analyze_cycles reports a dominant_period within 1 day of P and the
\* dominant peak has relative_strength > 0.5.
C14_SinusoidPeriodFound ==
    \A P \in SinusoidPeriods : \A A \in SinusoidAmplitudes :
    \A phase \in SinusoidPhases :
        (CycleReturned /\ mood_data = Sinusoid(P, A, phase)) => FoundPeriod(P)

\* C14, amended: the dominant period is within 1 day of P, with
\* relative_strength > 0.5, exactly when some frequency bin 60/k other
\* than the first and the last has a period within 1 day of P.
C14_ResolvedPeriodFound ==
    \A P \in SinusoidPeriods : \A A \in SinusoidAmplitudes :
    \A phase \in SinusoidPhases :
        (CycleReturned /\ mood_data = Sinusoid(P, A, phase)) =>
            (FoundPeriod(P) <=> Resolved(P, Len(mood_data)))

C14_Witness ==
    /\ CycleReturned
    /\ mood_data = Sinusoid(7, 2, 0)
    /\ cycle_report.dominant_period = Some(Rat(20, 3))
    /\ cycle_report.peaks[1].relative_strength = RInt(1)
    /\ FoundPeriod(7)

-----------------------------------------------------------------------------
(* Further properties of JournalClusterer.                                 *)

\* the number of texts that preprocessing leaves non-empty
KeptCount(texts) ==
    Cardinality({j \in 1..Len(texts) :
                     preprocess_for_analysis(texts[j]) # <<>>})

SingleReport(label) ==
    /\ ClusterReturned
    /\ Len(cluster_result.reports) = 1
    /\ cluster_result.reports[1].theme = Theme("literal", <<label>>)

\* C15: with fewer than 6 texts cluster_entries returns a single report
\* with theme 'Insufficient data' whose entry_indices are all the input
\* indices 0..len(texts)-1; with 6 or more texts of which fewer than 3
\* remain non-empty after preprocessing it returns a single report with
\* theme 'Processing error'; in both cases nothing is vectorized or
\* clustered.
C15_LowDataDegenerate ==
    cluster_result.status # "none" =>
        LET n == Len(journal_texts)
        IN  /\ n < 6 =>
                /\ SingleReport("Insufficient data")
                /\ cluster_result.reports[1].entry_indices
                       = [i \in 1..n |-> i - 1]
                /\ clusterer = FreshClusterer
            /\ (n >= 6 /\ KeptCount(journal_texts) < 3) =>
                /\ SingleReport("Processing error")
                /\ clusterer = FreshClusterer

\* six or more texts of which preprocessing keeps two
C15_Witness ==
    /\ Len(journal_texts) >= 6
    /\ KeptCount(journal_texts) = 2
    /\ SingleReport("Processing error")
    /\ Len(cluster_result.reports[1].entry_indices) = 2
    /\ clusterer.vectorizer = None

-----------------------------------------------------------------------------
(* JournalClusterer.analyze_cluster_emotions.                              *)

HasNone(s) == \E i \in 1..Len(s) : s[i] = None

\* [values[i] for i in indices if i < len(values)], indices being 0-based
AtIndices(values, indices) ==
    LET within == SelectSeq(indices, LAMBDA i : i < Len(values))
    IN  [j \in 1..Len(within) |-> values[within[j] + 1]]

\* `word in theme`, theme being cluster['theme'].lower()
ThemeHolds(theme, word) ==
    CASE theme.kind = "named" ->
             \/ theme.of = <<"Work">> /\ word = "work"
             \/ theme.of = <<"Anxiety">> /\ word = "anxiety"
             \/ theme.of = <<"Relationships">> /\ word = "relationship"
             \/ theme.of = <<"Health">> /\ word = "health"
      [] theme.kind = "related" ->
             \E b \in 1..Len(theme.of) : word \in MarkersIn(theme.of[b])
      [] OTHER -> FALSE

Insight(text, about) == [text |-> text, about |-> about]

\* _generate_cluster_insights, for a cluster that has a size
generate_cluster_insights(cluster) ==
    LET theme == cluster.theme
        avg_mood == cluster.avg_mood
        size == cluster.size
        high == avg_mood # None /\ RGe(Val(avg_mood), RInt(7))
        low == avg_mood # None /\ RLe(Val(avg_mood), RInt(4))
    IN  (IF size >= 5
         THEN <<Insight("This is a recurring theme in your journal ({size} entries)",
                        size)>>
         ELSE <<>>)
        \o (IF high /\ ThemeHolds(theme, "work")
            THEN <<Insight("Work seems to be a positive aspect of your life",
                           <<>>)>>
            ELSE IF low /\ ThemeHolds(theme, "work")
            THEN <<Insight("Work appears to be a source of stress", <<>>)>>
            ELSE IF high
            THEN <<Insight("{theme} entries tend to be positive", theme)>>
            ELSE IF low
            THEN <<Insight("{theme} entries tend to be negative", theme)>>
            ELSE <<>>)
        \o (IF ThemeHolds(theme, "anxiety") \/ ThemeHolds(theme, "stress")
            THEN <<Insight("Consider stress management techniques for this area",
                           <<>>)>>
            ELSE IF ThemeHolds(theme, "relationship")
            THEN <<Insight("Relationships are an important focus in your journaling",
                           <<>>)>>
            ELSE IF ThemeHolds(theme, "health")
            THEN <<Insight("Health and wellness are key concerns for you",
                           <<>>)>>
            ELSE <<>>)

\* the keys analyze_cluster_emotions sets before it asks for the insights
WithEmotions(cluster, cluster_moods, cluster_sentiments) ==
    LET avg_mood == IF cluster_moods # <<>>
                    THEN Some(Mean([j \in 1..Len(cluster_moods) |->
                                       Val(cluster_moods[j])]))
                    ELSE None
        avg_sentiment == IF cluster_sentiments # <<>>
                         THEN Some(Mean([j \in 1..Len(cluster_sentiments) |->
                                            Val(cluster_sentiments[j])]))
                         ELSE None
        emotional_category ==
            IF avg_mood = None THEN "unknown"
            ELSE IF RGe(Val(avg_mood), RInt(7)) THEN "positive"
            ELSE IF RLe(Val(avg_mood), RInt(4)) THEN "negative"
            ELSE "neutral"
    IN  [key \in DOMAIN cluster
                 \cup {"avg_mood", "avg_sentiment", "emotional_category"} |->
            IF key = "avg_mood" THEN avg_mood
            ELSE IF key = "avg_sentiment" THEN avg_sentiment
            ELSE IF key = "emotional_category" THEN emotional_category
            ELSE cluster[key]]

\* one pass of the loop `for cluster in clusters`: the cluster as the pass
\* leaves it, and whether the pass raised.  np.mean of a list that holds
\* None raises TypeError before any key is set; a cluster without 'size'
\* raises KeyError in _generate_cluster_insights, after the three keys
\* were set.
EmotionPass(cluster, moods, sentiments) ==
    LET cluster_moods == AtIndices(moods, cluster.entry_indices)
        cluster_sentiments ==
            SelectSeq(AtIndices(sentiments, cluster.entry_indices),
                      LAMBDA v : v # None)
        marked == WithEmotions(cluster, cluster_moods, cluster_sentiments)
    IN  IF HasNone(cluster_moods)
        THEN [raised |-> TRUE, cluster |-> cluster]
        ELSE IF "size" \notin DOMAIN cluster
        THEN [raised |-> TRUE, cluster |-> marked]
        ELSE [raised |-> FALSE,
              cluster |-> [key \in DOMAIN marked \cup {"insights"} |->
                              IF key = "insights"
                              THEN generate_cluster_insights(marked)
                              ELSE marked[key]]]

\* analyze_cluster_emotions: the clusters, which it changes in place, as it
\* leaves them, and whether it returned them
RECURSIVE EmotionLoop(_, _, _, _)
EmotionLoop(clusters, from, moods, sentiments) ==
    IF from > Len(clusters)
    THEN [status |-> "returned", clusters |-> clusters]
    ELSE LET pass == EmotionPass(clusters[from], moods, sentiments)
             changed == [clusters EXCEPT ![from] = pass.cluster]
         IN  IF pass.raised
             THEN [status |-> "raised", clusters |-> changed]
             ELSE EmotionLoop(changed, from + 1, moods, sentiments)

analyze_cluster_emotions(clusters, moods, sentiments) ==
    EmotionLoop(clusters, 1, moods, sentiments)

-----------------------------------------------------------------------------
(* cluster_entries followed by analyze_cluster_emotions.                   *)

\* ratings on and on both sides of the category thresholds 4 and 7, for no
\* entry, for the first two, and pairwise for all six
EmotionLevels == {None, Some(RInt(4)), Some(RInt(7))}

EmotionRatings ==
    Lists(EmotionLevels, 2)
        \cup {[i \in 1..6 |-> IF i <= 2 THEN x ELSE IF i <= 4 THEN y ELSE z] :
                  x \in EmotionLevels, y \in EmotionLevels,
                  z \in EmotionLevels}

EmotionSentiments ==
    Lists({None, Some(Rat(1, 5)), Some(Rat(4, 5))}, 1)
        \cup {[i \in 1..6 |-> IF i % 2 = 0 THEN None ELSE Some(Rat(4, 5))],
              [i \in 1..6 |-> IF i <= 3 THEN Some(Rat(1, 5))
                              ELSE Some(Rat(4, 5))]}

\* clusterer.analyze_cluster_emotions(clusters, mood_ratings,
\* sentiment_scores) on the list that cluster_entries returned
AnalyzeClusterEmotions ==
    /\ cluster_result.status = "returned"
    /\ emotion_result.status = "none"
    /\ \E moods \in EmotionRatings : \E sentiments \in EmotionSentiments :
           LET call == analyze_cluster_emotions(cluster_result.reports,
                                                moods, sentiments)
           IN  /\ mood_ratings' = moods
               /\ sentiment_scores' = sentiments
               /\ emotion_result' = [status |-> call.status]
               /\ cluster_result' =
                      [cluster_result EXCEPT !.reports = call.clusters]
    /\ UNCHANGED <<indexVars, cycleVars, journal_texts, seeded, clusterer,
                   clusterer_before>>

EmotionsNext == ClusterFirst \/ AnalyzeClusterEmotions

\* one input, with what the seeded algorithms give on it
EmotionsInit ==
    /\ IndexIdle
    /\ CycleIdle
    /\ journal_texts = <<>>
    /\ \E t \in ReclusterInputs : \E s \in Seeds(t) :
           seeded = [u \in {t} |-> s]
    /\ clusterer = FreshClusterer
    /\ clusterer_before = FreshClusterer
    /\ cluster_result = NoCall
    /\ EmotionIdle

SpecEmotions == EmotionsInit /\ [][EmotionsNext]_vars

EmotionsReturned == emotion_result.status = "returned"

\* the values present in a list at the 0-based indices, None and indices
\* past the end of the list left out
PresentAt(values, indices) ==
    SelectSeq([j \in 1..Len(indices) |->
                   IF indices[j] < Len(values) THEN values[indices[j] + 1]
                   ELSE None],
              LAMBDA v : v # None)

MeanOfPresent(values, indices) ==
    LET present == PresentAt(values, indices)
    IN  IF present = <<>> THEN None
        ELSE Some(Mean([j \in 1..Len(present) |-> Val(present[j])]))

CategoryOf(avg_mood) ==
    IF avg_mood = None THEN "unknown"
    ELSE IF RGe(Val(avg_mood), RInt(7)) THEN "positive"
    ELSE IF RLe(Val(avg_mood), RInt(4)) THEN "negative"
    ELSE "neutral"

\* C16: analyze_cluster_emotions never fails on missing values, and for
\* every cluster passed to it (a report that has a size) avg_mood is the mean of the mood ratings
\* present at the cluster's member indices, avg_sentiment the mean of the
\* present sentiment scores, and emotional_category is positive when
\* avg_mood >= 7, negative when avg_mood <= 4, neutral in between and
\* unknown when no member has a mood rating.
C16_ClusterEmotions ==
    (/\ emotion_result.status # "none"
     /\ \A a \in 1..Len(cluster_result.reports) :
            "size" \in DOMAIN cluster_result.reports[a]) =>
        /\ EmotionsReturned
        /\ \A a \in 1..Len(cluster_result.reports) :
               LET cluster == cluster_result.reports[a]
                   avg_mood == MeanOfPresent(mood_ratings,
                                             cluster.entry_indices)
               IN  /\ cluster.avg_mood = avg_mood
                   /\ cluster.avg_sentiment =
                          MeanOfPresent(sentiment_scores,
                                        cluster.entry_indices)
                   /\ cluster.emotional_category = CategoryOf(avg_mood)

\* C17: every report returned by cluster_entries, the 'Insufficient data'
\* and 'Processing error' reports included, carries at most 5 keywords and
\* a size field equal to the number of its entry_indices.
C17_ReportsCarrySize ==
    ClusterReturned =>
        \A a \in 1..Len(cluster_result.reports) :
            LET report == cluster_result.reports[a]
            IN  /\ Len(report.keywords) <= 5
                /\ "size" \in DOMAIN report
                /\ report.size = Len(report.entry_indices)

\* the length of what _preprocess_data returns for the series d
ProcessedLength(d) ==
    IF HasNaN(d) /\ MostlyMissing(d) THEN ValidCount(d) ELSE Len(d)

\* the quality that the length of the series and the peaks reported call for
QualityCalledFor(length, peaks) ==
    CASE length < 14 -> "poor_short_series"
      [] length >= 14 /\ length < 30 -> "fair_medium_series"
      [] length >= 30 /\ peaks = <<>> -> "poor_no_peaks"
      [] length >= 30 /\ peaks # <<>>
             /\ RLt(peaks[1].relative_strength, Rat(3, 10)) ->
             "fair_weak_signal"
      [] length >= 30 /\ peaks # <<>>
             /\ RGt(peaks[1].relative_strength, Rat(7, 10)) ->
             "excellent_strong_signal"
      [] length >= 30 /\ peaks # <<>>
             /\ RGe(peaks[1].relative_strength, Rat(3, 10))
             /\ RLe(peaks[1].relative_strength, Rat(7, 10)) ->
             "good_moderate_signal"

\* C18: for a series of length >= 4 with at least one valid period,
\* analysis_quality follows from the raw length and the sorted peaks:
\* length < 14 gives poor_short_series; else length < 30 gives
\* fair_medium_series; else no peaks gives poor_no_peaks; else the dominant
\* peak's relative_strength < 0.3 gives fair_weak_signal, > 0.7 gives
\* excellent_strong_signal and a value in [0.3, 0.7] good_moderate_signal.
C18_QualityOrder ==
    (/\ CycleReturned
     /\ Len(mood_data) >= 4
     /\ ValidBins(ProcessedLength(mood_data)) # {}) =>
        cycle_report.analysis_quality
            = QualityCalledFor(Len(mood_data), cycle_report.peaks)

\* a dominant peak at the threshold 0.3 in a series of 30 values
C18_Witness ==
    /\ CycleReturned
    /\ Len(mood_data) = 30
    /\ cycle_report.peaks # <<>>
    /\ cycle_report.peaks[1].relative_strength = Rat(3, 10)
    /\ cycle_report.analysis_quality = "good_moderate_signal"

\* C19: in every report returned by analyze_cycles the peaks are ordered by
\* non-increasing amplitude, dominant_period is the period of peaks[0] and
\* is absent exactly when there is no peak, every peak's period lies in
\* [min_period, max_period] with a positive frequency, and every peak's
\* relative_strength lies in [0.1, 1].
C19_PeaksOrderedAndBounded ==
    CycleReturned =>
        LET peaks == cycle_report.peaks
        IN  /\ \A i \in 1..(Len(peaks) - 1) :
                   RGe(peaks[i].amplitude, peaks[i + 1].amplitude)
            /\ (cycle_report.dominant_period = None) <=> (peaks = <<>>)
            /\ peaks # <<>> =>
                   cycle_report.dominant_period = Some(peaks[1].period)
            /\ \A i \in 1..Len(peaks) :
                   /\ RGe(peaks[i].period, RInt(min_period))
                   /\ RLe(peaks[i].period, RInt(max_period))
                   /\ RGt(peaks[i].frequency, RInt(0))
                   /\ RGe(peaks[i].relative_strength, Rat(1, 10))
                   /\ RLe(peaks[i].relative_strength, RInt(1))

\* two peaks, the stronger one at the shorter period, which find_peaks
\* reports last
C19_Witness ==
    /\ CycleReturned
    /\ Len(cycle_report.peaks) = 2
    /\ RGt(cycle_report.peaks[1].amplitude, cycle_report.peaks[2].amplitude)
    /\ RLt(cycle_report.peaks[1].period, cycle_report.peaks[2].period)
    /\ cycle_report.peaks[2].relative_strength = Rat(1, 10)

\* the number of clusters the last call settled on
ChosenK == Val(clusterer.clustering_model).n_clusters

\* C20: over n vectorized texts the cluster count is 1 when n < 6, when
\* min(max_clusters, n div 2) < 2 or when the best silhouette score found
\* is at most 0.2; otherwise it is the k in 2..min(max_clusters, n div 2)
\* of the highest silhouette score, the smallest such k on ties.  So it is
\* 1 or within that range, and never above n.
C20_ClusterCountSelection ==
    (ClusterReturned /\ clusterer.clustering_model # None) =>
        LET docs == ValidTexts(journal_texts)
            rows == Rows(Vectorize(docs), docs)
            seed == seeded[journal_texts]
            n == Len(docs)
            top == IntMin(max_clusters, n \div 2)
            scored == {k \in 2..top : ~SilhouetteRaises(seed, k, rows)}
            fallback ==
                \/ n < 6
                \/ top < 2
                \/ \A k \in scored : RLe(seed.score[k], Rat(2, 10))
        IN  /\ fallback => ChosenK = 1
            /\ ~fallback =>
                   /\ ChosenK \in scored
                   /\ \A k \in scored :
                          /\ RLe(seed.score[k], seed.score[ChosenK])
                          /\ seed.score[k] = seed.score[ChosenK] =>
                                 ChosenK <= k
            /\ ChosenK = 1 \/ ChosenK \in 2..top
            /\ ChosenK <= n

\* two cluster counts tied at the highest score, the smaller one chosen
C20_Witness ==
    /\ ClusterReturned
    /\ clusterer.clustering_model # None
    /\ ChosenK = 2
    /\ LET docs == ValidTexts(journal_texts)
           rows == Rows(Vectorize(docs), docs)
           seed == seeded[journal_texts]
       IN  /\ MaxK(Len(rows)) = 3
           /\ ~SilhouetteRaises(seed, 3, rows)
           /\ seed.score[2] = Rat(1, 2)
           /\ seed.score[3] = Rat(1, 2)

\* the indices that the reports of the last call name
ReportedIndices ==
    UNION {IndexSet(cluster_result.reports[a]) :
               a \in 1..Len(cluster_result.reports)}

\* the 0-based index i is that of a row which the final KMeans put in a
\* partition of fewer than min_cluster_size rows, more than one cluster
\* having been formed
DroppedByFilter(i) ==
    /\ clusterer.clustering_model # None
    /\ ChosenK > 1
    /\ LET docs == ValidTexts(journal_texts)
           rows == Rows(Vectorize(docs), docs)
           labels == ClusterLabels(seeded[journal_texts], ChosenK, rows)
           valid_indices == ValidIndices(journal_texts)
       IN  \E p \in 1..Len(valid_indices) :
               /\ valid_indices[p] = i
               /\ Cardinality({q \in 1..Len(labels) : labels[q] = labels[p]})
                      < min_cluster_size

\* C21: an input index is missing from the union of the reported
\* entry_indices only because minimum-cluster-size filtering dropped its
\* partition (more than one cluster formed, fewer than min_cluster_size
\* members); a single cluster is never filtered and covers every index of
\* the input.
C21_OnlyFilteringDrops ==
    ClusterReturned =>
        \A i \in 0..(Len(journal_texts) - 1) :
            i \notin ReportedIndices => DroppedByFilter(i)

\* C21, amended: an input index is missing from the union of the reported
\* entry_indices only because minimum-cluster-size filtering dropped its
\* partition or because, among six or more texts, preprocessing left its
\* text empty.
C21_FilteringOrEmptyDrops ==
    ClusterReturned =>
        \A i \in 0..(Len(journal_texts) - 1) :
            i \notin ReportedIndices =>
                \/ DroppedByFilter(i)
                \/ /\ Len(journal_texts) >= 6
                   /\ preprocess_for_analysis(journal_texts[i + 1]) = <<>>

\* two clusters formed, the one of two entries dropped, and an entry that
\* preprocessing emptied
C21_Witness ==
    /\ ClusterReturned
    /\ Len(cluster_result.reports) = 1
    /\ \E i \in 0..(Len(journal_texts) - 1) :
           i \notin ReportedIndices /\ DroppedByFilter(i)
    /\ \E i \in 0..(Len(journal_texts) - 1) :
           /\ i \notin ReportedIndices
           /\ preprocess_for_analysis(journal_texts[i + 1]) = <<>>

-----------------------------------------------------------------------------
(* calculate_index on entries passed in every order of their timestamps.   *)

TrendMoods == {Some(RInt(4)), Some(RInt(5)), Some(RInt(10))}

\* n entries whose timestamps are the ticks 0..n-1 in some order
DistinctTimeLists(n, M) ==
    {[i \in 1..n |-> [mood_rating |-> m[i], sentiment_score |-> Some(Rat(4, 5)),
                      created_at |-> t[i]]] :
         m \in [1..n -> M],
         t \in {f \in [1..n -> 0..(n - 1)] :
                    \A a, b \in 1..n : a # b => f[a] # f[b]}}

\* three and four entries of any of three moods, five entries of two
\* moods, and four entries on two timestamps
TrendInputs ==
    DistinctTimeLists(3, TrendMoods) \cup DistinctTimeLists(4, TrendMoods)
        \cup DistinctTimeLists(5, {Some(RInt(4)), Some(RInt(10))})
        \cup [1..4 -> Entry({Some(RInt(4)), Some(RInt(10))},
                            {Some(Rat(4, 5))}, {0, 1})]

TrendInit ==
    /\ entries \in TrendInputs
    /\ weights = InitialWeights
    /\ index_result = NoCall
    /\ computed = {}
    /\ interpretation = NoCall
    /\ recommendations = NoCall
    /\ ScoreIdle
    /\ CycleIdle
    /\ ClusterIdle

TrendNext == CalculateIndex

SpecTrend == TrendInit /\ [][TrendNext]_vars

\* the number of entries that come before entry i in ascending time
\* order, entries of one timestamp in the order they were passed
TimeRank(es, i) ==
    Cardinality({j \in 1..Len(es) :
                     \/ es[j].created_at < es[i].created_at
                     \/ es[j].created_at = es[i].created_at /\ j < i})

MoodsAt(es, I) ==
    LET at == SortedSeq(I)
    IN  [k \in 1..Len(at) |-> Val(es[at[k]].mood_rating)]

DistinctTimes(es) ==
    \A a, b \in 1..Len(es) : a # b => es[a].created_at # es[b].created_at

\* 5 + 2 * (mean of the newer moods - mean of the older moods), within
\* [0, 10]
TrendCalledFor(es) ==
    LET older == {i \in 1..Len(es) : TimeRank(es, i) < Len(es) \div 2}
        newer == (1..Len(es)) \ older
        raw == RAdd(RInt(5),
                    RMul(RInt(2), RSub(Mean(MoodsAt(es, newer)),
                                       Mean(MoodsAt(es, older)))))
    IN  IF RLt(raw, RInt(0)) THEN RInt(0)
        ELSE IF RGt(raw, RInt(10)) THEN RInt(10)
        ELSE raw

\* C22: the trend component is 5.0 for fewer than 4 entries; otherwise it
\* is 5 + 2*(mean of the newer moods - mean of the older moods) clamped to
\* [0,10], the older half being the first floor(n/2) entries in ascending
\* time order and the newer half the rest; so with distinct timestamps it
\* does not depend on the order in which the entries were passed.
C22_TrendOfTimeOrderedHalves ==
    (Returned /\ entries # <<>>) =>
        /\ Len(entries) < 4 => index_result.components.trend = RInt(5)
        /\ Len(entries) >= 4 =>
               index_result.components.trend = TrendCalledFor(entries)

\* four entries of distinct timestamps passed newest first, the newer
\* half half a point above the older one
C22_Witness ==
    /\ Returned
    /\ Len(entries) = 4
    /\ DistinctTimes(entries)
    /\ \A i \in 1..3 : entries[i].created_at > entries[i + 1].created_at
    /\ index_result.components.trend = RInt(6)

-----------------------------------------------------------------------------
(* FourierAnalyzer.generate_cycle_insights.                                *)

Between(lo, x, hi) == RLe(RInt(lo), x) /\ RLe(x, RInt(hi))

\* the insights on the dominant cycle's period
PeriodInsights(period) ==
    IF Between(6, period, 8)
    THEN <<Insight("Strong weekly pattern detected ({period:.1f} day cycle)",
                   period),
           Insight("Your mood follows a weekly rhythm - consider weekly planning",
                   <<>>)>>
    ELSE IF Between(13, period, 15)
    THEN <<Insight("Bi-weekly pattern detected ({period:.1f} day cycle)",
                   period),
           Insight("You might benefit from bi-weekly goal setting", <<>>)>>
    ELSE IF Between(28, period, 32)
    THEN <<Insight("Monthly pattern detected ({period:.1f} day cycle)",
                   period),
           Insight("Consider tracking monthly external factors", <<>>)>>
    ELSE <<Insight("Unique {period:.1f}-day cycle detected in your mood",
                   period)>>

\* mutant: a relative strength of exactly 0.7 called very consistent
StrengthInsight_StrongAtThreshold(strength) ==
    IF RGe(strength, Rat(7, 10))
    THEN Insight("This pattern is very consistent and reliable", <<>>)
    ELSE IF RGt(strength, Rat(4, 10))
    THEN Insight("This pattern is moderately consistent", <<>>)
    ELSE Insight("This pattern is weak but detectable", <<>>)

StrengthInsight(strength) ==
    IF RGt(strength, Rat(7, 10))
    THEN Insight("This pattern is very consistent and reliable", <<>>)
    ELSE IF RGt(strength, Rat(4, 10))
    THEN Insight("This pattern is moderately consistent", <<>>)
    ELSE Insight("This pattern is weak but detectable", <<>>)

\* dominant['period'] / peak['period'] within [1.8, 2.2]
IsHarmonic(dominant, peak) ==
    LET ratio == Rat(dominant.period.num * peak.period.den,
                     dominant.period.den * peak.period.num)
    IN  RLe(Rat(18, 10), ratio) /\ RLe(ratio, Rat(22, 10))

\* the loop `for i, peak in enumerate(peaks[1:], 1)` from peak i + 1 on
RECURSIVE HarmonicInsights(_, _)
HarmonicInsights(peaks, i) ==
    IF i + 1 > Len(peaks) THEN <<>>
    ELSE (IF IsHarmonic(peaks[1], peaks[i + 1])
          THEN <<Insight("Cycle {i+1} appears to be a harmonic of your main cycle",
                         i + 1)>>
          ELSE <<>>)
             \o HarmonicInsights(peaks, i + 1)

generate_cycle_insights(analysis_results) ==
    LET peaks == analysis_results.peaks
    IN  IF analysis_results.analysis_quality
               \in {"poor_short_series", "poor_no_peaks"}
        THEN <<Insight("Not enough data to detect reliable patterns. Keep journaling!",
                       <<>>)>>
        ELSE IF peaks = <<>>
        THEN <<Insight("No clear cyclical patterns detected in your mood data.",
                       <<>>)>>
        ELSE PeriodInsights(peaks[1].period)
                 \o <<StrengthInsight(peaks[1].relative_strength)>>
                 \o (IF Len(peaks) > 1
                     THEN <<Insight("You have {len(peaks)} overlapping mood cycles",
                                    Len(peaks))>>
                              \o HarmonicInsights(peaks, 1)
                     ELSE <<>>)

\* fourier_analyzer.generate_cycle_insights(analysis), analysis being the
\* report that analyze_cycles returned
GenerateCycleInsights ==
    /\ cycle_report.status = "returned"
    /\ cycle_insights.status = "none"
    /\ cycle_insights' =
           [status |-> "returned",
            list |-> generate_cycle_insights(cycle_report)]
    /\ UNCHANGED <<mood_data, spectrum, cycle_report, cycle_steps, forecast>>
    /\ UNCHANGED <<indexVars, clusterVars>>

\* series of 13, 30, 60 and 64 present values
InsightLengths == {13, 30, 60, 64}

\* amplitudes that make the dominant relative strength 0.4, 0.7, 0.8 or 1
InsightLevels == {0, 4, 7, 8}

\* the bins that carry a signal: their periods fall on and around the
\* bounds of the weekly, bi-weekly and monthly ranges, and their ratios
\* around 1.8 and on and around 2 and 2.2.  No two of them are in the ratio
\* 9 to 5: the quotient of the two double periods is then just below 1.8,
\* where the quotient of the rationals is 1.8, and for every other pair the
\* comparisons of the doubles and of the rationals agree.
InsightBins(m) == {2, 4, 5, 7, 8, 10, 11, 12} \cap (2..(m - 1))

\* spectra with at most two such bins above zero, and the first bin, which
\* is no peak, at zero or above them
InsightSpectra(d) ==
    LET m == Cardinality(ValidBins(Len(d)))
    IN  {[i \in 1..m |-> IF i = 1 THEN e
                         ELSE IF i = p THEN a
                         ELSE IF i = q THEN b ELSE 0] :
             p \in InsightBins(m), q \in InsightBins(m),
             a \in InsightLevels, b \in InsightLevels, e \in {0, 10}}

InsightsInit ==
    /\ IndexIdle
    /\ ClusterIdle
    /\ mood_data \in {[i \in 1..n |-> Some(RInt(5))] : n \in InsightLengths}
    /\ spectrum \in InsightSpectra(mood_data)
    /\ cycle_report = NoCall
    /\ cycle_steps = {}
    /\ forecast = NoCall
    /\ cycle_insights = NoCall

InsightsNext == AnalyzeCycles \/ GenerateCycleInsights

SpecInsights == InsightsInit /\ [][InsightsNext]_vars

InsightTexts == [i \in 1..Len(cycle_insights.list) |-> cycle_insights.list[i].text]

StrengthTexts ==
    {"This pattern is very consistent and reliable",
     "This pattern is moderately consistent",
     "This pattern is weak but detectable"}

HarmonicText == "Cycle {i+1} appears to be a harmonic of your main cycle"

\* the category line for a dominant period, and the position of the
\* strength qualifier, which follows the category and its advice
CategoryLine(period) ==
    IF RGe(period, RInt(6)) /\ RLe(period, RInt(8))
    THEN "Strong weekly pattern detected ({period:.1f} day cycle)"
    ELSE IF RGe(period, RInt(13)) /\ RLe(period, RInt(15))
    THEN "Bi-weekly pattern detected ({period:.1f} day cycle)"
    ELSE IF RGe(period, RInt(28)) /\ RLe(period, RInt(32))
    THEN "Monthly pattern detected ({period:.1f} day cycle)"
    ELSE "Unique {period:.1f}-day cycle detected in your mood"

QualifierFor(strength) ==
    IF RGt(strength, Rat(7, 10))
    THEN "This pattern is very consistent and reliable"
    ELSE IF RGt(strength, Rat(2, 5))
    THEN "This pattern is moderately consistent"
    ELSE "This pattern is weak but detectable"

\* the insights name the category of the dominant period, then exactly one
\* strength qualifier, and a harmonic note for exactly the further peaks
\* whose period the dominant period is 1.8 to 2.2 times
InsightsOnDominant ==
    LET peaks == cycle_report.peaks
        texts == InsightTexts
        qualifiers == {i \in 1..Len(texts) : texts[i] \in StrengthTexts}
        harmonics == {cycle_insights.list[i].about :
                          i \in {j \in 1..Len(texts) : texts[j] = HarmonicText}}
    IN  /\ texts # <<>>
        /\ texts[1] = CategoryLine(peaks[1].period)
        /\ cycle_insights.list[1].about = peaks[1].period
        /\ Cardinality(qualifiers) = 1
        /\ \A i \in qualifiers :
               /\ i > 1
               /\ texts[i] = QualifierFor(peaks[1].relative_strength)
               /\ \A j \in 1..Len(texts) : texts[j] = HarmonicText => i < j
        /\ harmonics =
               {i \in 2..Len(peaks) :
                    /\ 5 * peaks[1].period.num * peaks[i].period.den
                           >= 9 * peaks[1].period.den * peaks[i].period.num
                    /\ 5 * peaks[1].period.num * peaks[i].period.den
                           <= 11 * peaks[1].period.den * peaks[i].period.num}
        /\ Cardinality(harmonics)
               = Cardinality({j \in 1..Len(texts) : texts[j] = HarmonicText})

\* C23: for every cycle report that has at least one peak,
\* generate_cycle_insights emits the category of the dominant period
\* (weekly for 6..8 days, bi-weekly for 13..15, monthly for 28..32,
\* otherwise unique), then exactly one strength qualifier (> 0.7 very
\* consistent, > 0.4 moderate, else weak), and a harmonic note for each
\* further peak whose period ratio to the dominant one lies in [1.8, 2.2].
C23_InsightsOnPeaks ==
    (cycle_insights.status # "none" /\ cycle_report.peaks # <<>>) =>
        InsightsOnDominant

\* C23, amended: the same, for every cycle report with at least one peak
\* whose analysis_quality is not poor_short_series; for a series of fewer
\* than 14 values the only insight is that there is not enough data.
C23_InsightsOnPeaksOfLongSeries ==
    (cycle_insights.status # "none" /\ cycle_report.peaks # <<>>) =>
        IF cycle_report.analysis_quality = "poor_short_series"
        THEN InsightTexts =
                 <<"Not enough data to detect reliable patterns. Keep journaling!">>
        ELSE InsightsOnDominant

\* a weekly dominant cycle of relative strength 0.7 and its harmonic
C23_Witness ==
    /\ cycle_insights.status = "returned"
    /\ Len(cycle_report.peaks) = 2
    /\ cycle_report.peaks[1].period = Rat(15, 2)
    /\ cycle_report.peaks[2].period = Rat(15, 4)
    /\ cycle_report.peaks[1].relative_strength = Rat(7, 10)
    /\ InsightTexts =
           <<"Strong weekly pattern detected ({period:.1f} day cycle)",
             "Your mood follows a weekly rhythm - consider weekly planning",
             "This pattern is moderately consistent",
             "You have {len(peaks)} overlapping mood cycles",
             HarmonicText>>

-----------------------------------------------------------------------------
(* The quality score after a sequence of calls on one clusterer.           *)

\* the silhouette score of the partition that the last call made of
\* journal_texts, 0 when it made no partition into more than one cluster
LastPartitionScore ==
    LET docs == ValidTexts(journal_texts)
        rows == Rows(Vectorize(docs), docs)
        k == find_optimal_clusters(seeded[journal_texts], rows)
    IN  IF EarlyReturn(journal_texts) # <<>> THEN RInt(0)
        ELSE IF k > 1 THEN seeded[journal_texts].score[k]
        ELSE RInt(0)

\* the clusterer is as the last call left it: no new one was constructed
SinceLastCall ==
    clusterer = cluster_entries(clusterer_before, journal_texts,
                                seeded[journal_texts]).self

\* C24: after any sequence of cluster_entries calls, get_clustering_quality
\* returns the silhouette score of the most recent call's partition, or 0.0
\* when that call produced no partition into more than one cluster (a single
\* cluster, 'Insufficient data', 'Processing error'); it never returns the
\* score of an earlier call.
C24_QualityOfLastCall ==
    (ClusterReturned /\ SinceLastCall) =>
        get_clustering_quality(clusterer) = LastPartitionScore

-----------------------------------------------------------------------------
(* The score router (backend/routers/score.py).                            *)

MaxRequests == 2

\* timedelta(days=30), in ticks
Window == 30 * TicksPerDay

\* select(...).eq('user_id', ...).gte('created_at', start_date)
\*     .order('created_at', desc=True): the rows of the last 30 days, newest
\* first
RecentEntries(rows, at) ==
    LET fetched == SortedByCreatedAt(
                       SelectSeq(rows, LAMBDA e : e.created_at >= at - Window))
    IN  Reverse(fetched)

\* HTTPException(status_code, detail); cause is the exception whose str()
\* the detail was formatted with, <<>> when there is none
HTTPException(status_code, detail, cause) ==
    [exception |-> "HTTPException", status_code |-> status_code,
     detail |-> detail, cause |-> cause]

NoEntriesFound == HTTPException(404, "No entries found for user", <<>>)
TypeError == [exception |-> "TypeError"]

\* lines 43-60: the trend of the 7 newest moods against the 7 before them;
\* numpy.mean over a list that holds None raises TypeError
RequestTrend(es) ==
    IF Len(es) < 14 THEN [status |-> "returned", trend |-> "insufficient_data"]
    ELSE IF \E i \in 1..14 : es[i].mood_rating = None
    THEN [status |-> "raised", trend |-> ""]
    ELSE LET recent_avg == Mean([i \in 1..7 |-> Val(es[i].mood_rating)])
             older_avg == Mean([i \in 1..7 |-> Val(es[i + 7].mood_rating)])
         IN  [status |-> "returned",
              trend |->
                  IF RGt(recent_avg, RAdd(older_avg, Rat(1, 2)))
                  THEN "improving"
                  ELSE IF RLt(recent_avg, RSub(older_avg, Rat(1, 2)))
                  THEN "declining"
                  ELSE "stable"]

\* the body of the try block of calculate_mental_health_score, lines 24-78:
\* what it returns or raises, the rows of mh_scores it leaves, and whether it
\* called calculate_index
CalculateBody(rows, scores, at, w) ==
    LET fetched == RecentEntries(rows, at)
        call == calculate_index(w, fetched)
        trend == RequestTrend(fetched)
    IN  IF fetched = <<>>
        THEN [status |-> "raised", exception |-> NoEntriesFound,
              mh_scores |-> scores, calculated |-> FALSE]
        ELSE IF call.status = "raised" \/ trend.status = "raised"
        THEN [status |-> "raised", exception |-> TypeError,
              mh_scores |-> scores, calculated |-> TRUE]
        ELSE [status |-> "returned",
              response |-> [mh_index |-> call.index, trend |-> trend.trend,
                            last_updated |-> at,
                            components |-> call.components],
              mh_scores |-> Append(scores,
                                   [mh_index |-> call.index,
                                    trend |-> trend.trend,
                                    components |-> call.components,
                                    calculated_at |-> at]),
              calculated |-> TRUE]

\* calculate_mental_health_score: the try block, and the handler of lines
\* 80-81 that catches every Exception the block raises, the HTTPException
\* of line 37 among them
calculate_mental_health_score(rows, scores, at, w) ==
    LET body == CalculateBody(rows, scores, at, w)
    IN  IF body.status = "raised"
        THEN [status |-> "raised",
              exception |->
                  HTTPException(500, "Score calculation failed: {str(e)}",
                                body.exception),
              mh_scores |-> body.mh_scores, calculated |-> body.calculated]
        ELSE body

\* get_mental_health_score: the newest stored score, or the calculation when
\* none is stored; the handler of lines 102-103 catches what the
\* calculation raises
get_mental_health_score(rows, scores, at, w) ==
    LET call == calculate_mental_health_score(rows, scores, at, w)
        newest == CHOOSE r \in 1..Len(scores) :
                      \A q \in 1..Len(scores) :
                          scores[q].calculated_at <= scores[r].calculated_at
    IN  IF scores = <<>>
        THEN IF call.status = "raised"
             THEN [call EXCEPT !.exception =
                       HTTPException(500, "Failed to retrieve score: {str(e)}",
                                     call.exception)]
             ELSE call
        ELSE [status |-> "returned",
              response |-> [mh_index |-> scores[newest].mh_index,
                            trend |-> scores[newest].trend,
                            last_updated |-> scores[newest].calculated_at,
                            components |-> scores[newest].components],
              mh_scores |-> scores, calculated |-> FALSE]

\* the times of the first request: with the newest stored entries 5 days
\* old, and 70 days old
FirstRequestTimes == {35 * TicksPerDay, 100 * TicksPerDay}

\* a request reaches the router: the clock advances with each request
Request(route, call) ==
    /\ \E s \in FirstRequestTimes : now \in s..(s + MaxRequests - 1)
    /\ score_response' =
           IF call.status = "raised"
           THEN [status |-> "raised", route |-> route, at |-> now,
                 exception |-> call.exception]
           ELSE [status |-> "returned", route |-> route, at |-> now,
                 response |-> call.response]
    /\ mh_scores' = call.mh_scores
    /\ now' = now + 1
    /\ IF call.calculated
       THEN /\ entries' = RecentEntries(journal_entries, now)
            /\ index_result' = calculate_index(weights, entries')
            /\ computed' = ComputedBy(entries')
       ELSE UNCHANGED <<entries, index_result, computed>>
    /\ UNCHANGED <<weights, interpretation, recommendations, journal_entries>>
    /\ UNCHANGED <<cycleVars, clusterVars>>

\* POST /calculate
CalculateMentalHealthScore ==
    Request("calculate",
            calculate_mental_health_score(journal_entries, mh_scores, now,
                                          weights))

\* GET /{user_id}
GetMentalHealthScore ==
    Request("get",
            get_mental_health_score(journal_entries, mh_scores, now, weights))

\* the moods of the stored entries
StoredMoods == {Some(RInt(4)), Some(RInt(5)), Some(RInt(6)), None}

\* o entries from before the window, then r entries of the days 30 on, the
\* 7 newest with the mood a and the others with the mood b
Stored(o, r, a, b) ==
    [i \in 1..(o + r) |->
        [mood_rating |-> IF i > o + r - 7 THEN a ELSE b,
         sentiment_score |-> Some(Rat(4, 5)),
         created_at |-> IF i <= o THEN i - 1 ELSE Window + i - o]]

StoredEntries ==
    {Stored(o, r, a, b) :
         o \in 0..2, r \in {0, 1, 7, 14}, a \in StoredMoods,
         b \in StoredMoods \ {None}}

\* a score stored before the first request
StoredScore ==
    [mh_index |-> RInt(5), trend |-> "stable",
     components |-> [mood_average |-> RInt(5), mood_stability |-> RInt(5),
                     sentiment_average |-> RInt(5), consistency |-> RInt(5),
                     trend |-> RInt(5)],
     calculated_at |-> 0]

ScoreInit ==
    /\ entries = <<>>
    /\ weights = InitialWeights
    /\ index_result = NoCall
    /\ computed = {}
    /\ interpretation = NoCall
    /\ recommendations = NoCall
    /\ journal_entries \in StoredEntries
    /\ mh_scores \in {<<>>, <<StoredScore>>}
    /\ now \in FirstRequestTimes
    /\ score_response = NoCall
    /\ CycleIdle
    /\ ClusterIdle

ScoreNext == CalculateMentalHealthScore \/ GetMentalHealthScore

SpecScore == ScoreInit /\ [][ScoreNext]_vars

\* the store holds no entries of the 30 days before the last request
NoEntriesOfLast30Days ==
    \A i \in 1..Len(journal_entries) :
        journal_entries[i].created_at < score_response.at - Window

\* the last request ran calculate_mental_health_score: it was a calculate
\* request, or a get request that found no stored score
CalculationRequested ==
    /\ score_response.status # "none"
    /\ \/ score_response.route = "calculate"
       \/ \A i \in 1..Len(mh_scores) :
              mh_scores[i].calculated_at = score_response.at

\* C25: when the store holds no entries of the last 30 days for the user,
\* calculate_mental_health_score (also when get_mental_health_score reaches
\* it because no score is stored) answers HTTP 404 'No entries found for
\* user', computes no index and writes nothing to mh_scores.
C25_NoEntriesAnswers404 ==
    (CalculationRequested /\ NoEntriesOfLast30Days) =>
        /\ score_response.status = "raised"
        /\ score_response.exception.status_code = 404
        /\ score_response.exception.detail = "No entries found for user"
        /\ index_result = NoCall
        /\ \A i \in 1..Len(mh_scores) :
               mh_scores[i].calculated_at # score_response.at

-----------------------------------------------------------------------------
(* cluster_entries on entries of three kinds, the same number of each.     *)

\* two or three work entries, as many entries that hold no term, and as many
\* family entries
KindLists ==
    {Blocks(TextWork, n, TextFound, n, TextFamily, n) : n \in 2..(MaxTexts \div 3)}
        \cup {Blocks(TextWork, 2, TextFound, 2, TextFamily, 3)}

KindsInit ==
    /\ IndexIdle
    /\ CycleIdle
    /\ journal_texts = <<>>
    /\ \E t \in KindLists : \E s \in Seeds(t) : seeded = [u \in {t} |-> s]
    /\ clusterer = FreshClusterer
    /\ clusterer_before = FreshClusterer
    /\ cluster_result = NoCall
    /\ EmotionIdle

KindsNext == ClusterFirst

SpecKinds == KindsInit /\ [][KindsNext]_vars

\* C26: cluster_entries never returns an empty sequence for inputs that
\* vectorize successfully, also when more than one cluster is formed and
\* every cluster has fewer than min_cluster_size members.
C26_NeverEmpty ==
    ClusterReturned => cluster_result.reports # <<>>

====
